---------------------------- MODULE Spec2Model ----------------------------
(***************************************************************************)
(* A model of the reference extractor: the document-level parse of         *)
(* PDFReferenceParser (src/src/pdf_parser.py), the text normaliser and the *)
(* flattened-span segmenter (src/src/pdf_extractor.py) and the pipeline    *)
(* entry points that call them (src/main.py).                              *)
(*                                                                         *)
(* A text is a sequence of characters.  A character is a one-character     *)
(* string; the characters outside printable ASCII are written by their     *)
(* code point: "U+2014" is the em dash, "U+2018" and "U+2019" the curly    *)
(* apostrophes, "U+2026" the one-character ellipsis, "U+00A0" the no-break *)
(* space.                                                                  *)
(***************************************************************************)
EXTENDS Integers, Sequences, FiniteSets, TLC

(***************************************************************************)
(* Characters and character classes of Python's re and str.  A character   *)
(* of printable ASCII (the backtick apart) and each of \t \n \f \r is the  *)
(* string of that character; every other character is the token "U+XXXX"  *)
(* of its code point, in four or more hexadecimal digits.  The tables are  *)
(* those of the Unicode data of CPython 3.11 (Unicode 14.0.0), which str   *)
(* and re read: the patterns of the source are str patterns.               *)
(***************************************************************************)
UpperSeq ==
    << "A", "B", "C", "D", "E", "F", "G", "H", "I", "J", "K", "L", "M",
       "N", "O", "P", "Q", "R", "S", "T", "U", "V", "W", "X", "Y", "Z" >>

LowerSeq ==
    << "a", "b", "c", "d", "e", "f", "g", "h", "i", "j", "k", "l", "m",
       "n", "o", "p", "q", "r", "s", "t", "u", "v", "w", "x", "y", "z" >>

DigitSeq ==
    << "0", "1", "2", "3", "4", "5", "6", "7", "8", "9" >>

Range(f) == { f[i] : i \in DOMAIN f }

\* one of the places in the set S, 0 when there is none
AnyPlace(S) == IF S = {} THEN 0 ELSE CHOOSE k \in S : TRUE

\* the place of the character c in the sequence cs, 0 when it is not there
PlaceIn(cs, c) == AnyPlace({ k \in 1..Len(cs) : cs[k] = c })

\* [A-Z]
Upper ==
    { "A", "B", "C", "D", "E", "F", "G", "H", "I", "J", "K", "L", "M",
      "N", "O", "P", "Q", "R", "S", "T", "U", "V", "W", "X", "Y", "Z" }

\* [a-z]
Lower ==
    { "a", "b", "c", "d", "e", "f", "g", "h", "i", "j", "k", "l", "m",
      "n", "o", "p", "q", "r", "s", "t", "u", "v", "w", "x", "y", "z" }

\* [A-Za-z]
Alpha == Upper \cup Lower

\* [0-9]
AsciiDigit == { "0", "1", "2", "3", "4", "5", "6", "7", "8", "9" }

HexDigits == "0123456789ABCDEF"

\* the characters 32 to 95 and 97 to 126
PrintableLow ==
    " !\"#$%&'()*+,-./0123456789:;<=>?@ABCDEFGHIJKLMNOPQRSTUVWXYZ[\\]^_"

PrintableHigh == "abcdefghijklmnopqrstuvwxyz{|}~"

\* the place of the character c in the string cs, 0 when it is not there
IndexIn(cs, c) == AnyPlace({ k \in 1..Len(cs) : SubSeq(cs, k, k) = c })

\* the number that the hexadecimal digits of the token c, up to the k-th
\* character of c, write
RECURSIVE HexNum(_, _)
HexNum(c, k) ==
    IF k <= 2 THEN 0
    ELSE 16 * HexNum(c, k - 1) + IndexIn(HexDigits, SubSeq(c, k, k)) - 1

\* ord(c) of a character that is written as itself, low being its place in
\* PrintableLow
OrdOfPlain(c, low) ==
    IF c = "\t" THEN 9
    ELSE IF c = "\n" THEN 10
    ELSE IF c = "\f" THEN 12
    ELSE IF c = "\r" THEN 13
    ELSE IF low > 0 THEN 31 + low
    ELSE 96 + IndexIn(PrintableHigh, c)

\* ord(c)
Ord(c) ==
    IF Len(c) > 1 THEN HexNum(c, Len(c))
    ELSE OrdOfPlain(c, IndexIn(PrintableLow, c))

\* n in hexadecimal, in w digits at least
RECURSIVE Hex(_, _)
Hex(n, w) ==
    IF n = 0 /\ w <= 0 THEN ""
    ELSE Hex(n \div 16, w - 1) \o SubSeq(HexDigits, (n % 16) + 1, (n % 16) + 1)

\* chr(n)
Chr(n) ==
    IF n = 9 THEN "\t"
    ELSE IF n = 10 THEN "\n"
    ELSE IF n = 12 THEN "\f"
    ELSE IF n = 13 THEN "\r"
    ELSE IF n \in 32..95 THEN SubSeq(PrintableLow, n - 31, n - 31)
    ELSE IF n \in 97..126 THEN SubSeq(PrintableHigh, n - 96, n - 96)
    ELSE "U+" \o Hex(n, 4)

\* in the sorted table t, whose entries are stride numbers each, how many
\* of the entries lo to hi begin with n or less, counted from entry 1
RECURSIVE Locate(_, _, _, _, _)
Locate(t, stride, n, lo, hi) ==
    IF lo > hi THEN hi
    ELSE IF t[stride * (((lo + hi) \div 2) - 1) + 1] <= n
    THEN Locate(t, stride, n, ((lo + hi) \div 2) + 1, hi)
    ELSE Locate(t, stride, n, lo, ((lo + hi) \div 2) - 1)

\* n is in the k-th range of t, a table of first and last code points, k
\* being the last range that begins with n or less
InRangeAt(t, n, k) == k > 0 /\ n <= t[2 * k]

\* n is in one of the ranges of t
InRanges(t, n) == InRangeAt(t, n, Locate(t, 2, n, 1, Len(t) \div 2))

\* what the k-th run of the table t (first, last, step, delta: the code
\* points first, first + step, ... last map to themselves plus delta) adds
\* to n; 0 when n is not in the run
DeltaAt(t, n, k) ==
    IF k > 0 /\ n <= t[4 * k - 2] /\ (n - t[4 * k - 3]) % t[4 * k - 1] = 0
    THEN t[4 * k]
    ELSE 0

\* what the table t of runs adds to n; 0 when n is in no run
DeltaIn(t, n) == DeltaAt(t, n, Locate(t, 4, n, 1, Len(t) \div 4))

\* the code points of str.isspace()
SpaceCodes ==
    (9..13) \cup (28..32) \cup { 133 } \cup { 160 } \cup { 5760 } \cup
    (8192..8202) \cup (8232..8233) \cup { 8239 } \cup { 8287 } \cup { 12288 }

\* \s of re, and the characters str.strip() and str.split() take as blank
Space == { Chr(n) : n \in SpaceCodes }

\* the code points of the digit 0 of every decimal number system
DecimalZeros ==
    { 48, 1632, 1776, 1984, 2406, 2534, 2662, 2790, 2918, 3046, 3174, 3302,
       3430, 3558, 3664, 3792, 3872, 4160, 4240, 6112, 6160, 6470, 6608,
       6784, 6800, 6992, 7088, 7232, 7248, 42528, 43216, 43264, 43472, 43504,
       43600, 44016, 65296, 66720, 68912, 69734, 69872, 69942, 70096, 70384,
       70736, 70864, 71248, 71360, 71472, 71904, 72016, 72784, 73040, 73120,
       92768, 92864, 93008, 120782, 120792, 120802, 120812, 120822, 123200,
       123632, 125264, 130032 }

\* \d of re: the decimal digits
Digit == { Chr(z + k) : z \in DecimalZeros, k \in 0..9 }

\* the digit that the code point n writes
DigitOf(n) == n - AnyPlace({ z \in DecimalZeros : z <= n /\ n <= z + 9 })

\* int() of one decimal digit
DigitVal(c) ==
    IF c \in AsciiDigit THEN PlaceIn(DigitSeq, c) - 1 ELSE DigitOf(Ord(c))

\* the characters of \w above ASCII, first and last of each range
WordRanges ==
    << 170, 170, 178, 179, 181, 181, 185, 186, 188, 190, 192, 214, 216, 246,
       248, 705, 710, 721, 736, 740, 748, 748, 750, 750, 880, 884, 886, 887,
       890, 893, 895, 895, 902, 902, 904, 906, 908, 908, 910, 929, 931, 1013,
       1015, 1153, 1162, 1327, 1329, 1366, 1369, 1369, 1376, 1416, 1488,
       1514, 1519, 1522, 1568, 1610, 1632, 1641, 1646, 1647, 1649, 1747,
       1749, 1749, 1765, 1766, 1774, 1788, 1791, 1791, 1808, 1808, 1810,
       1839, 1869, 1957, 1969, 1969, 1984, 2026, 2036, 2037, 2042, 2042,
       2048, 2069, 2074, 2074, 2084, 2084, 2088, 2088, 2112, 2136, 2144,
       2154, 2160, 2183, 2185, 2190, 2208, 2249, 2308, 2361, 2365, 2365,
       2384, 2384, 2392, 2401, 2406, 2415, 2417, 2432, 2437, 2444, 2447,
       2448, 2451, 2472, 2474, 2480, 2482, 2482, 2486, 2489, 2493, 2493,
       2510, 2510, 2524, 2525, 2527, 2529, 2534, 2545, 2548, 2553, 2556,
       2556, 2565, 2570, 2575, 2576, 2579, 2600, 2602, 2608, 2610, 2611,
       2613, 2614, 2616, 2617, 2649, 2652, 2654, 2654, 2662, 2671, 2674,
       2676, 2693, 2701, 2703, 2705, 2707, 2728, 2730, 2736, 2738, 2739,
       2741, 2745, 2749, 2749, 2768, 2768, 2784, 2785, 2790, 2799, 2809,
       2809, 2821, 2828, 2831, 2832, 2835, 2856, 2858, 2864, 2866, 2867,
       2869, 2873, 2877, 2877, 2908, 2909, 2911, 2913, 2918, 2927, 2929,
       2935, 2947, 2947, 2949, 2954, 2958, 2960, 2962, 2965, 2969, 2970,
       2972, 2972, 2974, 2975, 2979, 2980, 2984, 2986, 2990, 3001, 3024,
       3024, 3046, 3058, 3077, 3084, 3086, 3088, 3090, 3112, 3114, 3129,
       3133, 3133, 3160, 3162, 3165, 3165, 3168, 3169, 3174, 3183, 3192,
       3198, 3200, 3200, 3205, 3212, 3214, 3216, 3218, 3240, 3242, 3251,
       3253, 3257, 3261, 3261, 3293, 3294, 3296, 3297, 3302, 3311, 3313,
       3314, 3332, 3340, 3342, 3344, 3346, 3386, 3389, 3389, 3406, 3406,
       3412, 3414, 3416, 3425, 3430, 3448, 3450, 3455, 3461, 3478, 3482,
       3505, 3507, 3515, 3517, 3517, 3520, 3526, 3558, 3567, 3585, 3632,
       3634, 3635, 3648, 3654, 3664, 3673, 3713, 3714, 3716, 3716, 3718,
       3722, 3724, 3747, 3749, 3749, 3751, 3760, 3762, 3763, 3773, 3773,
       3776, 3780, 3782, 3782, 3792, 3801, 3804, 3807, 3840, 3840, 3872,
       3891, 3904, 3911, 3913, 3948, 3976, 3980, 4096, 4138, 4159, 4169,
       4176, 4181, 4186, 4189, 4193, 4193, 4197, 4198, 4206, 4208, 4213,
       4225, 4238, 4238, 4240, 4249, 4256, 4293, 4295, 4295, 4301, 4301,
       4304, 4346, 4348, 4680, 4682, 4685, 4688, 4694, 4696, 4696, 4698,
       4701, 4704, 4744, 4746, 4749, 4752, 4784, 4786, 4789, 4792, 4798,
       4800, 4800, 4802, 4805, 4808, 4822, 4824, 4880, 4882, 4885, 4888,
       4954, 4969, 4988, 4992, 5007, 5024, 5109, 5112, 5117, 5121, 5740,
       5743, 5759, 5761, 5786, 5792, 5866, 5870, 5880, 5888, 5905, 5919,
       5937, 5952, 5969, 5984, 5996, 5998, 6000, 6016, 6067, 6103, 6103,
       6108, 6108, 6112, 6121, 6128, 6137, 6160, 6169, 6176, 6264, 6272,
       6276, 6279, 6312, 6314, 6314, 6320, 6389, 6400, 6430, 6470, 6509,
       6512, 6516, 6528, 6571, 6576, 6601, 6608, 6618, 6656, 6678, 6688,
       6740, 6784, 6793, 6800, 6809, 6823, 6823, 6917, 6963, 6981, 6988,
       6992, 7001, 7043, 7072, 7086, 7141, 7168, 7203, 7232, 7241, 7245,
       7293, 7296, 7304, 7312, 7354, 7357, 7359, 7401, 7404, 7406, 7411,
       7413, 7414, 7418, 7418, 7424, 7615, 7680, 7957, 7960, 7965, 7968,
       8005, 8008, 8013, 8016, 8023, 8025, 8025, 8027, 8027, 8029, 8029,
       8031, 8061, 8064, 8116, 8118, 8124, 8126, 8126, 8130, 8132, 8134,
       8140, 8144, 8147, 8150, 8155, 8160, 8172, 8178, 8180, 8182, 8188,
       8304, 8305, 8308, 8313, 8319, 8329, 8336, 8348, 8450, 8450, 8455,
       8455, 8458, 8467, 8469, 8469, 8473, 8477, 8484, 8484, 8486, 8486,
       8488, 8488, 8490, 8493, 8495, 8505, 8508, 8511, 8517, 8521, 8526,
       8526, 8528, 8585, 9312, 9371, 9450, 9471, 10102, 10131, 11264, 11492,
       11499, 11502, 11506, 11507, 11517, 11517, 11520, 11557, 11559, 11559,
       11565, 11565, 11568, 11623, 11631, 11631, 11648, 11670, 11680, 11686,
       11688, 11694, 11696, 11702, 11704, 11710, 11712, 11718, 11720, 11726,
       11728, 11734, 11736, 11742, 11823, 11823, 12293, 12295, 12321, 12329,
       12337, 12341, 12344, 12348, 12353, 12438, 12445, 12447, 12449, 12538,
       12540, 12543, 12549, 12591, 12593, 12686, 12690, 12693, 12704, 12735,
       12784, 12799, 12832, 12841, 12872, 12879, 12881, 12895, 12928, 12937,
       12977, 12991, 13312, 19903, 19968, 42124, 42192, 42237, 42240, 42508,
       42512, 42539, 42560, 42606, 42623, 42653, 42656, 42735, 42775, 42783,
       42786, 42888, 42891, 42954, 42960, 42961, 42963, 42963, 42965, 42969,
       42994, 43009, 43011, 43013, 43015, 43018, 43020, 43042, 43056, 43061,
       43072, 43123, 43138, 43187, 43216, 43225, 43250, 43255, 43259, 43259,
       43261, 43262, 43264, 43301, 43312, 43334, 43360, 43388, 43396, 43442,
       43471, 43481, 43488, 43492, 43494, 43518, 43520, 43560, 43584, 43586,
       43588, 43595, 43600, 43609, 43616, 43638, 43642, 43642, 43646, 43695,
       43697, 43697, 43701, 43702, 43705, 43709, 43712, 43712, 43714, 43714,
       43739, 43741, 43744, 43754, 43762, 43764, 43777, 43782, 43785, 43790,
       43793, 43798, 43808, 43814, 43816, 43822, 43824, 43866, 43868, 43881,
       43888, 44002, 44016, 44025, 44032, 55203, 55216, 55238, 55243, 55291,
       63744, 64109, 64112, 64217, 64256, 64262, 64275, 64279, 64285, 64285,
       64287, 64296, 64298, 64310, 64312, 64316, 64318, 64318, 64320, 64321,
       64323, 64324, 64326, 64433, 64467, 64829, 64848, 64911, 64914, 64967,
       65008, 65019, 65136, 65140, 65142, 65276, 65296, 65305, 65313, 65338,
       65345, 65370, 65382, 65470, 65474, 65479, 65482, 65487, 65490, 65495,
       65498, 65500, 65536, 65547, 65549, 65574, 65576, 65594, 65596, 65597,
       65599, 65613, 65616, 65629, 65664, 65786, 65799, 65843, 65856, 65912,
       65930, 65931, 66176, 66204, 66208, 66256, 66273, 66299, 66304, 66339,
       66349, 66378, 66384, 66421, 66432, 66461, 66464, 66499, 66504, 66511,
       66513, 66517, 66560, 66717, 66720, 66729, 66736, 66771, 66776, 66811,
       66816, 66855, 66864, 66915, 66928, 66938, 66940, 66954, 66956, 66962,
       66964, 66965, 66967, 66977, 66979, 66993, 66995, 67001, 67003, 67004,
       67072, 67382, 67392, 67413, 67424, 67431, 67456, 67461, 67463, 67504,
       67506, 67514, 67584, 67589, 67592, 67592, 67594, 67637, 67639, 67640,
       67644, 67644, 67647, 67669, 67672, 67702, 67705, 67742, 67751, 67759,
       67808, 67826, 67828, 67829, 67835, 67867, 67872, 67897, 67968, 68023,
       68028, 68047, 68050, 68096, 68112, 68115, 68117, 68119, 68121, 68149,
       68160, 68168, 68192, 68222, 68224, 68255, 68288, 68295, 68297, 68324,
       68331, 68335, 68352, 68405, 68416, 68437, 68440, 68466, 68472, 68497,
       68521, 68527, 68608, 68680, 68736, 68786, 68800, 68850, 68858, 68899,
       68912, 68921, 69216, 69246, 69248, 69289, 69296, 69297, 69376, 69415,
       69424, 69445, 69457, 69460, 69488, 69505, 69552, 69579, 69600, 69622,
       69635, 69687, 69714, 69743, 69745, 69746, 69749, 69749, 69763, 69807,
       69840, 69864, 69872, 69881, 69891, 69926, 69942, 69951, 69956, 69956,
       69959, 69959, 69968, 70002, 70006, 70006, 70019, 70066, 70081, 70084,
       70096, 70106, 70108, 70108, 70113, 70132, 70144, 70161, 70163, 70187,
       70272, 70278, 70280, 70280, 70282, 70285, 70287, 70301, 70303, 70312,
       70320, 70366, 70384, 70393, 70405, 70412, 70415, 70416, 70419, 70440,
       70442, 70448, 70450, 70451, 70453, 70457, 70461, 70461, 70480, 70480,
       70493, 70497, 70656, 70708, 70727, 70730, 70736, 70745, 70751, 70753,
       70784, 70831, 70852, 70853, 70855, 70855, 70864, 70873, 71040, 71086,
       71128, 71131, 71168, 71215, 71236, 71236, 71248, 71257, 71296, 71338,
       71352, 71352, 71360, 71369, 71424, 71450, 71472, 71483, 71488, 71494,
       71680, 71723, 71840, 71922, 71935, 71942, 71945, 71945, 71948, 71955,
       71957, 71958, 71960, 71983, 71999, 71999, 72001, 72001, 72016, 72025,
       72096, 72103, 72106, 72144, 72161, 72161, 72163, 72163, 72192, 72192,
       72203, 72242, 72250, 72250, 72272, 72272, 72284, 72329, 72349, 72349,
       72368, 72440, 72704, 72712, 72714, 72750, 72768, 72768, 72784, 72812,
       72818, 72847, 72960, 72966, 72968, 72969, 72971, 73008, 73030, 73030,
       73040, 73049, 73056, 73061, 73063, 73064, 73066, 73097, 73112, 73112,
       73120, 73129, 73440, 73458, 73648, 73648, 73664, 73684, 73728, 74649,
       74752, 74862, 74880, 75075, 77712, 77808, 77824, 78894, 82944, 83526,
       92160, 92728, 92736, 92766, 92768, 92777, 92784, 92862, 92864, 92873,
       92880, 92909, 92928, 92975, 92992, 92995, 93008, 93017, 93019, 93025,
       93027, 93047, 93053, 93071, 93760, 93846, 93952, 94026, 94032, 94032,
       94099, 94111, 94176, 94177, 94179, 94179, 94208, 100343, 100352,
       101589, 101632, 101640, 110576, 110579, 110581, 110587, 110589,
       110590, 110592, 110882, 110928, 110930, 110948, 110951, 110960,
       111355, 113664, 113770, 113776, 113788, 113792, 113800, 113808,
       113817, 119520, 119539, 119648, 119672, 119808, 119892, 119894,
       119964, 119966, 119967, 119970, 119970, 119973, 119974, 119977,
       119980, 119982, 119993, 119995, 119995, 119997, 120003, 120005,
       120069, 120071, 120074, 120077, 120084, 120086, 120092, 120094,
       120121, 120123, 120126, 120128, 120132, 120134, 120134, 120138,
       120144, 120146, 120485, 120488, 120512, 120514, 120538, 120540,
       120570, 120572, 120596, 120598, 120628, 120630, 120654, 120656,
       120686, 120688, 120712, 120714, 120744, 120746, 120770, 120772,
       120779, 120782, 120831, 122624, 122654, 123136, 123180, 123191,
       123197, 123200, 123209, 123214, 123214, 123536, 123565, 123584,
       123627, 123632, 123641, 124896, 124902, 124904, 124907, 124909,
       124910, 124912, 124926, 124928, 125124, 125127, 125135, 125184,
       125251, 125259, 125259, 125264, 125273, 126065, 126123, 126125,
       126127, 126129, 126132, 126209, 126253, 126255, 126269, 126464,
       126467, 126469, 126495, 126497, 126498, 126500, 126500, 126503,
       126503, 126505, 126514, 126516, 126519, 126521, 126521, 126523,
       126523, 126530, 126530, 126535, 126535, 126537, 126537, 126539,
       126539, 126541, 126543, 126545, 126546, 126548, 126548, 126551,
       126551, 126553, 126553, 126555, 126555, 126557, 126557, 126559,
       126559, 126561, 126562, 126564, 126564, 126567, 126570, 126572,
       126578, 126580, 126583, 126585, 126588, 126590, 126590, 126592,
       126601, 126603, 126619, 126625, 126627, 126629, 126633, 126635,
       126651, 127232, 127244, 130032, 130041, 131072, 173791, 173824,
       177976, 177984, 178205, 178208, 183969, 183984, 191456, 194560,
       195101, 196608, 201546 >>

\* [A-Za-z0-9_]
AsciiWord == Alpha \cup AsciiDigit \cup { "_" }

\* \w of re on one character
IsWord(c) ==
    \/ c \in AsciiWord
    \/ Len(c) > 1 /\ InRanges(WordRanges, Ord(c))

\* the characters above ASCII with another lowercase, in runs
LowerRuns ==
    << 192, 214, 1, 32, 216, 222, 1, 32, 256, 302, 2, 1, 304, 304, 1, -199,
       306, 310, 2, 1, 313, 327, 2, 1, 330, 374, 2, 1, 376, 376, 1, -121,
       377, 381, 2, 1, 385, 385, 1, 210, 386, 388, 2, 1, 390, 390, 1, 206,
       391, 391, 1, 1, 393, 394, 1, 205, 395, 395, 1, 1, 398, 398, 1, 79,
       399, 399, 1, 202, 400, 400, 1, 203, 401, 401, 1, 1, 403, 403, 1, 205,
       404, 404, 1, 207, 406, 406, 1, 211, 407, 407, 1, 209, 408, 408, 1, 1,
       412, 412, 1, 211, 413, 413, 1, 213, 415, 415, 1, 214, 416, 420, 2, 1,
       422, 422, 1, 218, 423, 423, 1, 1, 425, 425, 1, 218, 428, 428, 1, 1,
       430, 430, 1, 218, 431, 431, 1, 1, 433, 434, 1, 217, 435, 437, 2, 1,
       439, 439, 1, 219, 440, 440, 1, 1, 444, 444, 1, 1, 452, 452, 1, 2, 453,
       453, 1, 1, 455, 455, 1, 2, 456, 456, 1, 1, 458, 458, 1, 2, 459, 475,
       2, 1, 478, 494, 2, 1, 497, 497, 1, 2, 498, 500, 2, 1, 502, 502, 1,
       -97, 503, 503, 1, -56, 504, 542, 2, 1, 544, 544, 1, -130, 546, 562, 2,
       1, 570, 570, 1, 10795, 571, 571, 1, 1, 573, 573, 1, -163, 574, 574, 1,
       10792, 577, 577, 1, 1, 579, 579, 1, -195, 580, 580, 1, 69, 581, 581,
       1, 71, 582, 590, 2, 1, 880, 882, 2, 1, 886, 886, 1, 1, 895, 895, 1,
       116, 902, 902, 1, 38, 904, 906, 1, 37, 908, 908, 1, 64, 910, 911, 1,
       63, 913, 929, 1, 32, 931, 939, 1, 32, 975, 975, 1, 8, 984, 1006, 2, 1,
       1012, 1012, 1, -60, 1015, 1015, 1, 1, 1017, 1017, 1, -7, 1018, 1018,
       1, 1, 1021, 1023, 1, -130, 1024, 1039, 1, 80, 1040, 1071, 1, 32, 1120,
       1152, 2, 1, 1162, 1214, 2, 1, 1216, 1216, 1, 15, 1217, 1229, 2, 1,
       1232, 1326, 2, 1, 1329, 1366, 1, 48, 4256, 4293, 1, 7264, 4295, 4295,
       1, 7264, 4301, 4301, 1, 7264, 5024, 5103, 1, 38864, 5104, 5109, 1, 8,
       7312, 7354, 1, -3008, 7357, 7359, 1, -3008, 7680, 7828, 2, 1, 7838,
       7838, 1, -7615, 7840, 7934, 2, 1, 7944, 7951, 1, -8, 7960, 7965, 1,
       -8, 7976, 7983, 1, -8, 7992, 7999, 1, -8, 8008, 8013, 1, -8, 8025,
       8031, 2, -8, 8040, 8047, 1, -8, 8072, 8079, 1, -8, 8088, 8095, 1, -8,
       8104, 8111, 1, -8, 8120, 8121, 1, -8, 8122, 8123, 1, -74, 8124, 8124,
       1, -9, 8136, 8139, 1, -86, 8140, 8140, 1, -9, 8152, 8153, 1, -8, 8154,
       8155, 1, -100, 8168, 8169, 1, -8, 8170, 8171, 1, -112, 8172, 8172, 1,
       -7, 8184, 8185, 1, -128, 8186, 8187, 1, -126, 8188, 8188, 1, -9, 8486,
       8486, 1, -7517, 8490, 8490, 1, -8383, 8491, 8491, 1, -8262, 8498,
       8498, 1, 28, 8544, 8559, 1, 16, 8579, 8579, 1, 1, 9398, 9423, 1, 26,
       11264, 11311, 1, 48, 11360, 11360, 1, 1, 11362, 11362, 1, -10743,
       11363, 11363, 1, -3814, 11364, 11364, 1, -10727, 11367, 11371, 2, 1,
       11373, 11373, 1, -10780, 11374, 11374, 1, -10749, 11375, 11375, 1,
       -10783, 11376, 11376, 1, -10782, 11378, 11378, 1, 1, 11381, 11381, 1,
       1, 11390, 11391, 1, -10815, 11392, 11490, 2, 1, 11499, 11501, 2, 1,
       11506, 11506, 1, 1, 42560, 42604, 2, 1, 42624, 42650, 2, 1, 42786,
       42798, 2, 1, 42802, 42862, 2, 1, 42873, 42875, 2, 1, 42877, 42877, 1,
       -35332, 42878, 42886, 2, 1, 42891, 42891, 1, 1, 42893, 42893, 1,
       -42280, 42896, 42898, 2, 1, 42902, 42920, 2, 1, 42922, 42922, 1,
       -42308, 42923, 42923, 1, -42319, 42924, 42924, 1, -42315, 42925,
       42925, 1, -42305, 42926, 42926, 1, -42308, 42928, 42928, 1, -42258,
       42929, 42929, 1, -42282, 42930, 42930, 1, -42261, 42931, 42931, 1,
       928, 42932, 42946, 2, 1, 42948, 42948, 1, -48, 42949, 42949, 1,
       -42307, 42950, 42950, 1, -35384, 42951, 42953, 2, 1, 42960, 42960, 1,
       1, 42966, 42968, 2, 1, 42997, 42997, 1, 1, 65313, 65338, 1, 32, 66560,
       66599, 1, 40, 66736, 66771, 1, 40, 66928, 66938, 1, 39, 66940, 66954,
       1, 39, 66956, 66962, 1, 39, 66964, 66965, 1, 39, 68736, 68786, 1, 64,
       71840, 71871, 1, 32, 93760, 93791, 1, 32, 125184, 125217, 1, 34 >>

\* the character c, of code point n, moved by what the table t of runs adds
ShiftedBy(c, n, d) == IF d = 0 THEN c ELSE Chr(n + d)

Moved(c, n, t) == ShiftedBy(c, n, DeltaIn(t, n))

\* the lowercase of the letters A to Z
AsciiLower == [c \in Upper |-> LowerSeq[PlaceIn(UpperSeq, c)]]

\* the lowercase of one character as re.IGNORECASE takes it (unicode_tolower
\* of _sre); str.lower() of one character other than U+0130
LowerChar(c) ==
    IF c \in Upper THEN AsciiLower[c]
    ELSE IF Len(c) = 1 THEN c
    ELSE Moved(c, Ord(c), LowerRuns)

\* the characters above ASCII that differ from their lowercase or from
\* their uppercase (unicode_iscased of _sre)
CasedRanges ==
    << 181, 181, 192, 214, 216, 246, 248, 311, 313, 396, 398, 410, 412, 425,
       428, 441, 444, 445, 447, 447, 452, 544, 546, 563, 570, 596, 598, 599,
       601, 601, 603, 604, 608, 609, 611, 611, 613, 614, 616, 620, 623, 623,
       625, 626, 629, 629, 637, 637, 640, 640, 642, 643, 647, 652, 658, 658,
       669, 670, 837, 837, 880, 883, 886, 887, 891, 893, 895, 895, 902, 902,
       904, 906, 908, 908, 910, 929, 931, 977, 981, 1013, 1015, 1019, 1021,
       1153, 1162, 1327, 1329, 1366, 1377, 1415, 4256, 4293, 4295, 4295,
       4301, 4301, 4304, 4346, 4349, 4351, 5024, 5109, 5112, 5117, 7296,
       7304, 7312, 7354, 7357, 7359, 7545, 7545, 7549, 7549, 7566, 7566,
       7680, 7835, 7838, 7838, 7840, 7957, 7960, 7965, 7968, 8005, 8008,
       8013, 8016, 8023, 8025, 8025, 8027, 8027, 8029, 8029, 8031, 8061,
       8064, 8116, 8118, 8124, 8126, 8126, 8130, 8132, 8134, 8140, 8144,
       8147, 8150, 8155, 8160, 8172, 8178, 8180, 8182, 8188, 8486, 8486,
       8490, 8491, 8498, 8498, 8526, 8526, 8544, 8575, 8579, 8580, 9398,
       9449, 11264, 11376, 11378, 11379, 11381, 11382, 11390, 11491, 11499,
       11502, 11506, 11507, 11520, 11557, 11559, 11559, 11565, 11565, 42560,
       42605, 42624, 42651, 42786, 42799, 42802, 42863, 42873, 42887, 42891,
       42893, 42896, 42900, 42902, 42926, 42928, 42954, 42960, 42961, 42966,
       42969, 42997, 42998, 43859, 43859, 43888, 43967, 64256, 64262, 64275,
       64279, 65313, 65338, 65345, 65370, 66560, 66639, 66736, 66771, 66776,
       66811, 66928, 66938, 66940, 66954, 66956, 66962, 66964, 66965, 66967,
       66977, 66979, 66993, 66995, 67001, 67003, 67004, 68736, 68786, 68800,
       68850, 71840, 71903, 93760, 93823, 125184, 125251 >>

\* re.IGNORECASE takes c as a letter with two cases
IsCased(c) ==
    \/ c \in Alpha
    \/ Len(c) > 1 /\ InRanges(CasedRanges, Ord(c))

\* the lowercase characters that re.IGNORECASE takes as equal to others
\* with another lowercase (_EXTRA_CASES of re._casefix)
FixKeys ==
    << 105, 115, 181, 305, 383, 837, 912, 944, 946, 949, 952, 953, 954, 956,
       960, 961, 962, 963, 966, 976, 977, 981, 982, 1008, 1009, 1013, 1074,
       1076, 1086, 1089, 1090, 1098, 1123, 7296, 7297, 7298, 7299, 7300,
       7301, 7302, 7303, 7304, 7777, 7835, 8126, 8147, 8163, 42571, 64261,
       64262 >>

\* those others, for FixKeys in order
FixVals ==
    << { 305 }, { 383 }, { 956 }, { 105 }, { 115 }, { 953, 8126 }, { 8147 },
       { 8163 }, { 976 }, { 1013 }, { 977 }, { 837, 8126 }, { 1008 },
       { 181 }, { 982 }, { 1009 }, { 963 }, { 962 }, { 981 }, { 946 },
       { 952 }, { 966 }, { 960 }, { 954 }, { 961 }, { 949 }, { 7296 },
       { 7297 }, { 7298 }, { 7299 }, { 7300, 7301 }, { 7302 }, { 7303 },
       { 1074 }, { 1076 }, { 1086 }, { 1089 }, { 1090, 7301 },
       { 1090, 7300 }, { 1098 }, { 1123 }, { 42571 }, { 7835 }, { 7777 },
       { 837, 953 }, { 912 }, { 944 }, { 7304 }, { 64262 }, { 64261 } >>

FixChars == { Chr(FixKeys[k]) : k \in 1..Len(FixKeys) }

\* the characters that re.IGNORECASE takes as equal to the lowercase
\* character lo
CaseSet(lo) ==
    IF lo \notin FixChars THEN { lo }
    ELSE { lo } \cup { Chr(m) : m \in FixVals[Locate(FixKeys, 1, Ord(lo), 1,
                                                   Len(FixKeys))] }

\* the characters above ASCII of str.isupper(), first and last of each range
UpperRanges ==
    << 192, 214, 216, 222, 256, 256, 258, 258, 260, 260, 262, 262, 264, 264,
       266, 266, 268, 268, 270, 270, 272, 272, 274, 274, 276, 276, 278, 278,
       280, 280, 282, 282, 284, 284, 286, 286, 288, 288, 290, 290, 292, 292,
       294, 294, 296, 296, 298, 298, 300, 300, 302, 302, 304, 304, 306, 306,
       308, 308, 310, 310, 313, 313, 315, 315, 317, 317, 319, 319, 321, 321,
       323, 323, 325, 325, 327, 327, 330, 330, 332, 332, 334, 334, 336, 336,
       338, 338, 340, 340, 342, 342, 344, 344, 346, 346, 348, 348, 350, 350,
       352, 352, 354, 354, 356, 356, 358, 358, 360, 360, 362, 362, 364, 364,
       366, 366, 368, 368, 370, 370, 372, 372, 374, 374, 376, 377, 379, 379,
       381, 381, 385, 386, 388, 388, 390, 391, 393, 395, 398, 401, 403, 404,
       406, 408, 412, 413, 415, 416, 418, 418, 420, 420, 422, 423, 425, 425,
       428, 428, 430, 431, 433, 435, 437, 437, 439, 440, 444, 444, 452, 452,
       455, 455, 458, 458, 461, 461, 463, 463, 465, 465, 467, 467, 469, 469,
       471, 471, 473, 473, 475, 475, 478, 478, 480, 480, 482, 482, 484, 484,
       486, 486, 488, 488, 490, 490, 492, 492, 494, 494, 497, 497, 500, 500,
       502, 504, 506, 506, 508, 508, 510, 510, 512, 512, 514, 514, 516, 516,
       518, 518, 520, 520, 522, 522, 524, 524, 526, 526, 528, 528, 530, 530,
       532, 532, 534, 534, 536, 536, 538, 538, 540, 540, 542, 542, 544, 544,
       546, 546, 548, 548, 550, 550, 552, 552, 554, 554, 556, 556, 558, 558,
       560, 560, 562, 562, 570, 571, 573, 574, 577, 577, 579, 582, 584, 584,
       586, 586, 588, 588, 590, 590, 880, 880, 882, 882, 886, 886, 895, 895,
       902, 902, 904, 906, 908, 908, 910, 911, 913, 929, 931, 939, 975, 975,
       978, 980, 984, 984, 986, 986, 988, 988, 990, 990, 992, 992, 994, 994,
       996, 996, 998, 998, 1000, 1000, 1002, 1002, 1004, 1004, 1006, 1006,
       1012, 1012, 1015, 1015, 1017, 1018, 1021, 1071, 1120, 1120, 1122,
       1122, 1124, 1124, 1126, 1126, 1128, 1128, 1130, 1130, 1132, 1132,
       1134, 1134, 1136, 1136, 1138, 1138, 1140, 1140, 1142, 1142, 1144,
       1144, 1146, 1146, 1148, 1148, 1150, 1150, 1152, 1152, 1162, 1162,
       1164, 1164, 1166, 1166, 1168, 1168, 1170, 1170, 1172, 1172, 1174,
       1174, 1176, 1176, 1178, 1178, 1180, 1180, 1182, 1182, 1184, 1184,
       1186, 1186, 1188, 1188, 1190, 1190, 1192, 1192, 1194, 1194, 1196,
       1196, 1198, 1198, 1200, 1200, 1202, 1202, 1204, 1204, 1206, 1206,
       1208, 1208, 1210, 1210, 1212, 1212, 1214, 1214, 1216, 1217, 1219,
       1219, 1221, 1221, 1223, 1223, 1225, 1225, 1227, 1227, 1229, 1229,
       1232, 1232, 1234, 1234, 1236, 1236, 1238, 1238, 1240, 1240, 1242,
       1242, 1244, 1244, 1246, 1246, 1248, 1248, 1250, 1250, 1252, 1252,
       1254, 1254, 1256, 1256, 1258, 1258, 1260, 1260, 1262, 1262, 1264,
       1264, 1266, 1266, 1268, 1268, 1270, 1270, 1272, 1272, 1274, 1274,
       1276, 1276, 1278, 1278, 1280, 1280, 1282, 1282, 1284, 1284, 1286,
       1286, 1288, 1288, 1290, 1290, 1292, 1292, 1294, 1294, 1296, 1296,
       1298, 1298, 1300, 1300, 1302, 1302, 1304, 1304, 1306, 1306, 1308,
       1308, 1310, 1310, 1312, 1312, 1314, 1314, 1316, 1316, 1318, 1318,
       1320, 1320, 1322, 1322, 1324, 1324, 1326, 1326, 1329, 1366, 4256,
       4293, 4295, 4295, 4301, 4301, 5024, 5109, 7312, 7354, 7357, 7359,
       7680, 7680, 7682, 7682, 7684, 7684, 7686, 7686, 7688, 7688, 7690,
       7690, 7692, 7692, 7694, 7694, 7696, 7696, 7698, 7698, 7700, 7700,
       7702, 7702, 7704, 7704, 7706, 7706, 7708, 7708, 7710, 7710, 7712,
       7712, 7714, 7714, 7716, 7716, 7718, 7718, 7720, 7720, 7722, 7722,
       7724, 7724, 7726, 7726, 7728, 7728, 7730, 7730, 7732, 7732, 7734,
       7734, 7736, 7736, 7738, 7738, 7740, 7740, 7742, 7742, 7744, 7744,
       7746, 7746, 7748, 7748, 7750, 7750, 7752, 7752, 7754, 7754, 7756,
       7756, 7758, 7758, 7760, 7760, 7762, 7762, 7764, 7764, 7766, 7766,
       7768, 7768, 7770, 7770, 7772, 7772, 7774, 7774, 7776, 7776, 7778,
       7778, 7780, 7780, 7782, 7782, 7784, 7784, 7786, 7786, 7788, 7788,
       7790, 7790, 7792, 7792, 7794, 7794, 7796, 7796, 7798, 7798, 7800,
       7800, 7802, 7802, 7804, 7804, 7806, 7806, 7808, 7808, 7810, 7810,
       7812, 7812, 7814, 7814, 7816, 7816, 7818, 7818, 7820, 7820, 7822,
       7822, 7824, 7824, 7826, 7826, 7828, 7828, 7838, 7838, 7840, 7840,
       7842, 7842, 7844, 7844, 7846, 7846, 7848, 7848, 7850, 7850, 7852,
       7852, 7854, 7854, 7856, 7856, 7858, 7858, 7860, 7860, 7862, 7862,
       7864, 7864, 7866, 7866, 7868, 7868, 7870, 7870, 7872, 7872, 7874,
       7874, 7876, 7876, 7878, 7878, 7880, 7880, 7882, 7882, 7884, 7884,
       7886, 7886, 7888, 7888, 7890, 7890, 7892, 7892, 7894, 7894, 7896,
       7896, 7898, 7898, 7900, 7900, 7902, 7902, 7904, 7904, 7906, 7906,
       7908, 7908, 7910, 7910, 7912, 7912, 7914, 7914, 7916, 7916, 7918,
       7918, 7920, 7920, 7922, 7922, 7924, 7924, 7926, 7926, 7928, 7928,
       7930, 7930, 7932, 7932, 7934, 7934, 7944, 7951, 7960, 7965, 7976,
       7983, 7992, 7999, 8008, 8013, 8025, 8025, 8027, 8027, 8029, 8029,
       8031, 8031, 8040, 8047, 8120, 8123, 8136, 8139, 8152, 8155, 8168,
       8172, 8184, 8187, 8450, 8450, 8455, 8455, 8459, 8461, 8464, 8466,
       8469, 8469, 8473, 8477, 8484, 8484, 8486, 8486, 8488, 8488, 8490,
       8493, 8496, 8499, 8510, 8511, 8517, 8517, 8544, 8559, 8579, 8579,
       9398, 9423, 11264, 11311, 11360, 11360, 11362, 11364, 11367, 11367,
       11369, 11369, 11371, 11371, 11373, 11376, 11378, 11378, 11381, 11381,
       11390, 11392, 11394, 11394, 11396, 11396, 11398, 11398, 11400, 11400,
       11402, 11402, 11404, 11404, 11406, 11406, 11408, 11408, 11410, 11410,
       11412, 11412, 11414, 11414, 11416, 11416, 11418, 11418, 11420, 11420,
       11422, 11422, 11424, 11424, 11426, 11426, 11428, 11428, 11430, 11430,
       11432, 11432, 11434, 11434, 11436, 11436, 11438, 11438, 11440, 11440,
       11442, 11442, 11444, 11444, 11446, 11446, 11448, 11448, 11450, 11450,
       11452, 11452, 11454, 11454, 11456, 11456, 11458, 11458, 11460, 11460,
       11462, 11462, 11464, 11464, 11466, 11466, 11468, 11468, 11470, 11470,
       11472, 11472, 11474, 11474, 11476, 11476, 11478, 11478, 11480, 11480,
       11482, 11482, 11484, 11484, 11486, 11486, 11488, 11488, 11490, 11490,
       11499, 11499, 11501, 11501, 11506, 11506, 42560, 42560, 42562, 42562,
       42564, 42564, 42566, 42566, 42568, 42568, 42570, 42570, 42572, 42572,
       42574, 42574, 42576, 42576, 42578, 42578, 42580, 42580, 42582, 42582,
       42584, 42584, 42586, 42586, 42588, 42588, 42590, 42590, 42592, 42592,
       42594, 42594, 42596, 42596, 42598, 42598, 42600, 42600, 42602, 42602,
       42604, 42604, 42624, 42624, 42626, 42626, 42628, 42628, 42630, 42630,
       42632, 42632, 42634, 42634, 42636, 42636, 42638, 42638, 42640, 42640,
       42642, 42642, 42644, 42644, 42646, 42646, 42648, 42648, 42650, 42650,
       42786, 42786, 42788, 42788, 42790, 42790, 42792, 42792, 42794, 42794,
       42796, 42796, 42798, 42798, 42802, 42802, 42804, 42804, 42806, 42806,
       42808, 42808, 42810, 42810, 42812, 42812, 42814, 42814, 42816, 42816,
       42818, 42818, 42820, 42820, 42822, 42822, 42824, 42824, 42826, 42826,
       42828, 42828, 42830, 42830, 42832, 42832, 42834, 42834, 42836, 42836,
       42838, 42838, 42840, 42840, 42842, 42842, 42844, 42844, 42846, 42846,
       42848, 42848, 42850, 42850, 42852, 42852, 42854, 42854, 42856, 42856,
       42858, 42858, 42860, 42860, 42862, 42862, 42873, 42873, 42875, 42875,
       42877, 42878, 42880, 42880, 42882, 42882, 42884, 42884, 42886, 42886,
       42891, 42891, 42893, 42893, 42896, 42896, 42898, 42898, 42902, 42902,
       42904, 42904, 42906, 42906, 42908, 42908, 42910, 42910, 42912, 42912,
       42914, 42914, 42916, 42916, 42918, 42918, 42920, 42920, 42922, 42926,
       42928, 42932, 42934, 42934, 42936, 42936, 42938, 42938, 42940, 42940,
       42942, 42942, 42944, 42944, 42946, 42946, 42948, 42951, 42953, 42953,
       42960, 42960, 42966, 42966, 42968, 42968, 42997, 42997, 65313, 65338,
       66560, 66599, 66736, 66771, 66928, 66938, 66940, 66954, 66956, 66962,
       66964, 66965, 68736, 68786, 71840, 71871, 93760, 93791, 119808,
       119833, 119860, 119885, 119912, 119937, 119964, 119964, 119966,
       119967, 119970, 119970, 119973, 119974, 119977, 119980, 119982,
       119989, 120016, 120041, 120068, 120069, 120071, 120074, 120077,
       120084, 120086, 120092, 120120, 120121, 120123, 120126, 120128,
       120132, 120134, 120134, 120138, 120144, 120172, 120197, 120224,
       120249, 120276, 120301, 120328, 120353, 120380, 120405, 120432,
       120457, 120488, 120512, 120546, 120570, 120604, 120628, 120662,
       120686, 120720, 120744, 120778, 120778, 125184, 125217, 127280,
       127305, 127312, 127337, 127344, 127369 >>

\* c.isupper() of one character
isupper(c) ==
    \/ c \in Upper
    \/ Len(c) > 1 /\ InRanges(UpperRanges, Ord(c))

\* the characters that str.lower() passes over when it looks for the
\* letters around a capital sigma (Case_Ignorable)
CaseIgnorableRanges ==
    << 39, 39, 46, 46, 58, 58, 94, 94, 96, 96, 168, 168, 173, 173, 175, 175,
       180, 180, 183, 184, 688, 879, 884, 885, 890, 890, 900, 901, 903, 903,
       1155, 1161, 1369, 1369, 1375, 1375, 1425, 1469, 1471, 1471, 1473,
       1474, 1476, 1477, 1479, 1479, 1524, 1524, 1536, 1541, 1552, 1562,
       1564, 1564, 1600, 1600, 1611, 1631, 1648, 1648, 1750, 1757, 1759,
       1768, 1770, 1773, 1807, 1807, 1809, 1809, 1840, 1866, 1958, 1968,
       2027, 2037, 2042, 2042, 2045, 2045, 2070, 2093, 2137, 2139, 2184,
       2184, 2192, 2193, 2200, 2207, 2249, 2306, 2362, 2362, 2364, 2364,
       2369, 2376, 2381, 2381, 2385, 2391, 2402, 2403, 2417, 2417, 2433,
       2433, 2492, 2492, 2497, 2500, 2509, 2509, 2530, 2531, 2558, 2558,
       2561, 2562, 2620, 2620, 2625, 2626, 2631, 2632, 2635, 2637, 2641,
       2641, 2672, 2673, 2677, 2677, 2689, 2690, 2748, 2748, 2753, 2757,
       2759, 2760, 2765, 2765, 2786, 2787, 2810, 2815, 2817, 2817, 2876,
       2876, 2879, 2879, 2881, 2884, 2893, 2893, 2901, 2902, 2914, 2915,
       2946, 2946, 3008, 3008, 3021, 3021, 3072, 3072, 3076, 3076, 3132,
       3132, 3134, 3136, 3142, 3144, 3146, 3149, 3157, 3158, 3170, 3171,
       3201, 3201, 3260, 3260, 3263, 3263, 3270, 3270, 3276, 3277, 3298,
       3299, 3328, 3329, 3387, 3388, 3393, 3396, 3405, 3405, 3426, 3427,
       3457, 3457, 3530, 3530, 3538, 3540, 3542, 3542, 3633, 3633, 3636,
       3642, 3654, 3662, 3761, 3761, 3764, 3772, 3782, 3782, 3784, 3789,
       3864, 3865, 3893, 3893, 3895, 3895, 3897, 3897, 3953, 3966, 3968,
       3972, 3974, 3975, 3981, 3991, 3993, 4028, 4038, 4038, 4141, 4144,
       4146, 4151, 4153, 4154, 4157, 4158, 4184, 4185, 4190, 4192, 4209,
       4212, 4226, 4226, 4229, 4230, 4237, 4237, 4253, 4253, 4348, 4348,
       4957, 4959, 5906, 5908, 5938, 5939, 5970, 5971, 6002, 6003, 6068,
       6069, 6071, 6077, 6086, 6086, 6089, 6099, 6103, 6103, 6109, 6109,
       6155, 6159, 6211, 6211, 6277, 6278, 6313, 6313, 6432, 6434, 6439,
       6440, 6450, 6450, 6457, 6459, 6679, 6680, 6683, 6683, 6742, 6742,
       6744, 6750, 6752, 6752, 6754, 6754, 6757, 6764, 6771, 6780, 6783,
       6783, 6823, 6823, 6832, 6862, 6912, 6915, 6964, 6964, 6966, 6970,
       6972, 6972, 6978, 6978, 7019, 7027, 7040, 7041, 7074, 7077, 7080,
       7081, 7083, 7085, 7142, 7142, 7144, 7145, 7149, 7149, 7151, 7153,
       7212, 7219, 7222, 7223, 7288, 7293, 7376, 7378, 7380, 7392, 7394,
       7400, 7405, 7405, 7412, 7412, 7416, 7417, 7468, 7530, 7544, 7544,
       7579, 7679, 8125, 8125, 8127, 8129, 8141, 8143, 8157, 8159, 8173,
       8175, 8189, 8190, 8203, 8207, 8216, 8217, 8228, 8228, 8231, 8231,
       8234, 8238, 8288, 8292, 8294, 8303, 8305, 8305, 8319, 8319, 8336,
       8348, 8400, 8432, 11388, 11389, 11503, 11505, 11631, 11631, 11647,
       11647, 11744, 11775, 11823, 11823, 12293, 12293, 12330, 12333, 12337,
       12341, 12347, 12347, 12441, 12446, 12540, 12542, 40981, 40981, 42232,
       42237, 42508, 42508, 42607, 42610, 42612, 42621, 42623, 42623, 42652,
       42655, 42736, 42737, 42752, 42785, 42864, 42864, 42888, 42890, 42994,
       42996, 43000, 43001, 43010, 43010, 43014, 43014, 43019, 43019, 43045,
       43046, 43052, 43052, 43204, 43205, 43232, 43249, 43263, 43263, 43302,
       43309, 43335, 43345, 43392, 43394, 43443, 43443, 43446, 43449, 43452,
       43453, 43471, 43471, 43493, 43494, 43561, 43566, 43569, 43570, 43573,
       43574, 43587, 43587, 43596, 43596, 43632, 43632, 43644, 43644, 43696,
       43696, 43698, 43700, 43703, 43704, 43710, 43711, 43713, 43713, 43741,
       43741, 43756, 43757, 43763, 43764, 43766, 43766, 43867, 43871, 43881,
       43883, 44005, 44005, 44008, 44008, 44013, 44013, 64286, 64286, 64434,
       64450, 65024, 65039, 65043, 65043, 65056, 65071, 65106, 65106, 65109,
       65109, 65279, 65279, 65287, 65287, 65294, 65294, 65306, 65306, 65342,
       65342, 65344, 65344, 65392, 65392, 65438, 65439, 65507, 65507, 65529,
       65531, 66045, 66045, 66272, 66272, 66422, 66426, 67456, 67461, 67463,
       67504, 67506, 67514, 68097, 68099, 68101, 68102, 68108, 68111, 68152,
       68154, 68159, 68159, 68325, 68326, 68900, 68903, 69291, 69292, 69446,
       69456, 69506, 69509, 69633, 69633, 69688, 69702, 69744, 69744, 69747,
       69748, 69759, 69761, 69811, 69814, 69817, 69818, 69821, 69821, 69826,
       69826, 69837, 69837, 69888, 69890, 69927, 69931, 69933, 69940, 70003,
       70003, 70016, 70017, 70070, 70078, 70089, 70092, 70095, 70095, 70191,
       70193, 70196, 70196, 70198, 70199, 70206, 70206, 70367, 70367, 70371,
       70378, 70400, 70401, 70459, 70460, 70464, 70464, 70502, 70508, 70512,
       70516, 70712, 70719, 70722, 70724, 70726, 70726, 70750, 70750, 70835,
       70840, 70842, 70842, 70847, 70848, 70850, 70851, 71090, 71093, 71100,
       71101, 71103, 71104, 71132, 71133, 71219, 71226, 71229, 71229, 71231,
       71232, 71339, 71339, 71341, 71341, 71344, 71349, 71351, 71351, 71453,
       71455, 71458, 71461, 71463, 71467, 71727, 71735, 71737, 71738, 71995,
       71996, 71998, 71998, 72003, 72003, 72148, 72151, 72154, 72155, 72160,
       72160, 72193, 72202, 72243, 72248, 72251, 72254, 72263, 72263, 72273,
       72278, 72281, 72283, 72330, 72342, 72344, 72345, 72752, 72758, 72760,
       72765, 72767, 72767, 72850, 72871, 72874, 72880, 72882, 72883, 72885,
       72886, 73009, 73014, 73018, 73018, 73020, 73021, 73023, 73029, 73031,
       73031, 73104, 73105, 73109, 73109, 73111, 73111, 73459, 73460, 78896,
       78904, 92912, 92916, 92976, 92982, 92992, 92995, 94031, 94031, 94095,
       94111, 94176, 94177, 94179, 94180, 110576, 110579, 110581, 110587,
       110589, 110590, 113821, 113822, 113824, 113827, 118528, 118573,
       118576, 118598, 119143, 119145, 119155, 119170, 119173, 119179,
       119210, 119213, 119362, 119364, 121344, 121398, 121403, 121452,
       121461, 121461, 121476, 121476, 121499, 121503, 121505, 121519,
       122880, 122886, 122888, 122904, 122907, 122913, 122915, 122916,
       122918, 122922, 123184, 123197, 123566, 123566, 123628, 123631,
       125136, 125142, 125252, 125259, 127995, 127999, 917505, 917505,
       917536, 917631, 917760, 917999 >>

\* the letters among the others (Cased)
CasedLetterRanges ==
    << 65, 90, 97, 122, 170, 170, 181, 181, 186, 186, 192, 214, 216, 246,
       248, 442, 444, 447, 452, 659, 661, 687, 880, 883, 886, 887, 891, 893,
       895, 895, 902, 902, 904, 906, 908, 908, 910, 929, 931, 1013, 1015,
       1153, 1162, 1327, 1329, 1366, 1376, 1416, 4256, 4293, 4295, 4295,
       4301, 4301, 4304, 4346, 4349, 4351, 5024, 5109, 5112, 5117, 7296,
       7304, 7312, 7354, 7357, 7359, 7424, 7467, 7531, 7543, 7545, 7578,
       7680, 7957, 7960, 7965, 7968, 8005, 8008, 8013, 8016, 8023, 8025,
       8025, 8027, 8027, 8029, 8029, 8031, 8061, 8064, 8116, 8118, 8124,
       8126, 8126, 8130, 8132, 8134, 8140, 8144, 8147, 8150, 8155, 8160,
       8172, 8178, 8180, 8182, 8188, 8450, 8450, 8455, 8455, 8458, 8467,
       8469, 8469, 8473, 8477, 8484, 8484, 8486, 8486, 8488, 8488, 8490,
       8493, 8495, 8500, 8505, 8505, 8508, 8511, 8517, 8521, 8526, 8526,
       8544, 8575, 8579, 8580, 9398, 9449, 11264, 11387, 11390, 11492, 11499,
       11502, 11506, 11507, 11520, 11557, 11559, 11559, 11565, 11565, 42560,
       42605, 42624, 42651, 42786, 42863, 42865, 42887, 42891, 42894, 42896,
       42954, 42960, 42961, 42963, 42963, 42965, 42969, 42997, 42998, 43002,
       43002, 43824, 43866, 43872, 43880, 43888, 43967, 64256, 64262, 64275,
       64279, 65313, 65338, 65345, 65370, 66560, 66639, 66736, 66771, 66776,
       66811, 66928, 66938, 66940, 66954, 66956, 66962, 66964, 66965, 66967,
       66977, 66979, 66993, 66995, 67001, 67003, 67004, 68736, 68786, 68800,
       68850, 71840, 71903, 93760, 93823, 119808, 119892, 119894, 119964,
       119966, 119967, 119970, 119970, 119973, 119974, 119977, 119980,
       119982, 119993, 119995, 119995, 119997, 120003, 120005, 120069,
       120071, 120074, 120077, 120084, 120086, 120092, 120094, 120121,
       120123, 120126, 120128, 120132, 120134, 120134, 120138, 120144,
       120146, 120485, 120488, 120512, 120514, 120538, 120540, 120570,
       120572, 120596, 120598, 120628, 120630, 120654, 120656, 120686,
       120688, 120712, 120714, 120744, 120746, 120770, 120772, 120779,
       122624, 122633, 122635, 122654, 125184, 125251, 127280, 127305,
       127312, 127337, 127344, 127369 >>

\* str.lower() writes the capital sigma s[k] as a final sigma: a letter
\* comes before it and none after it, the characters passed over apart
FinalSigma(s, k) ==
    LET before ==
            { j \in 1..(k - 1) : ~InRanges(CaseIgnorableRanges, Ord(s[j])) }
        after ==
            { j \in (k + 1)..Len(s) :
                ~InRanges(CaseIgnorableRanges, Ord(s[j])) }
    IN  /\ before # {}
        /\ InRanges(CasedLetterRanges,
                    Ord(s[CHOOSE j \in before : \A x \in before : x <= j]))
        /\ \/ after = {}
           \/ ~InRanges(CasedLetterRanges,
                        Ord(s[CHOOSE j \in after : \A x \in after : j <= x]))

\* str.lower() of the character s[k] of s
LowerAt(s, k) ==
    IF s[k] = "U+0130" THEN << "i", "U+0307" >>
    ELSE IF s[k] = "U+03A3"
    THEN << IF FinalSigma(s, k) THEN "U+03C2" ELSE "U+03C3" >>
    ELSE << LowerChar(s[k]) >>

\* the characters above ASCII whose compatibility decomposition (NFKD)
\* holds one ASCII character, in runs
FoldRuns ==
    << 160, 160, 1, -128, 168, 168, 1, -136, 170, 170, 1, -73, 175, 175, 1,
       -143, 178, 179, 1, -128, 180, 180, 1, -148, 184, 184, 1, -152, 185,
       185, 1, -136, 186, 186, 1, -75, 192, 192, 1, -127, 193, 193, 1, -128,
       194, 194, 1, -129, 195, 195, 1, -130, 196, 196, 1, -131, 197, 199, 2,
       -132, 200, 200, 1, -131, 201, 201, 1, -132, 202, 202, 1, -133, 203,
       203, 1, -134, 204, 204, 1, -131, 205, 205, 1, -132, 206, 206, 1, -133,
       207, 207, 1, -134, 209, 210, 1, -131, 211, 211, 1, -132, 212, 212, 1,
       -133, 213, 213, 1, -134, 214, 214, 1, -135, 217, 217, 1, -132, 218,
       218, 1, -133, 219, 219, 1, -134, 220, 220, 1, -135, 221, 221, 1, -132,
       224, 224, 1, -127, 225, 225, 1, -128, 226, 226, 1, -129, 227, 227, 1,
       -130, 228, 228, 1, -131, 229, 231, 2, -132, 232, 232, 1, -131, 233,
       233, 1, -132, 234, 234, 1, -133, 235, 235, 1, -134, 236, 236, 1, -131,
       237, 237, 1, -132, 238, 238, 1, -133, 239, 239, 1, -134, 241, 242, 1,
       -131, 243, 243, 1, -132, 244, 244, 1, -133, 245, 245, 1, -134, 246,
       246, 1, -135, 249, 249, 1, -132, 250, 250, 1, -133, 251, 251, 1, -134,
       252, 252, 1, -135, 253, 253, 1, -132, 255, 255, 1, -134, 256, 256, 1,
       -191, 257, 257, 1, -160, 258, 258, 1, -193, 259, 259, 1, -162, 260,
       260, 1, -195, 261, 261, 1, -164, 262, 262, 1, -195, 263, 263, 1, -164,
       264, 264, 1, -197, 265, 265, 1, -166, 266, 266, 1, -199, 267, 267, 1,
       -168, 268, 268, 1, -201, 269, 269, 1, -170, 270, 270, 1, -202, 271,
       271, 1, -171, 274, 274, 1, -205, 275, 275, 1, -174, 276, 276, 1, -207,
       277, 277, 1, -176, 278, 278, 1, -209, 279, 279, 1, -178, 280, 280, 1,
       -211, 281, 281, 1, -180, 282, 282, 1, -213, 283, 283, 1, -182, 284,
       284, 1, -213, 285, 285, 1, -182, 286, 286, 1, -215, 287, 287, 1, -184,
       288, 288, 1, -217, 289, 289, 1, -186, 290, 290, 1, -219, 291, 291, 1,
       -188, 292, 292, 1, -220, 293, 293, 1, -189, 296, 296, 1, -223, 297,
       297, 1, -192, 298, 298, 1, -225, 299, 299, 1, -194, 300, 300, 1, -227,
       301, 301, 1, -196, 302, 302, 1, -229, 303, 303, 1, -198, 304, 304, 1,
       -231, 308, 308, 1, -234, 309, 309, 1, -203, 310, 310, 1, -235, 311,
       311, 1, -204, 313, 313, 1, -237, 314, 314, 1, -206, 315, 315, 1, -239,
       316, 316, 1, -208, 317, 317, 1, -241, 318, 318, 1, -210, 319, 319, 1,
       -243, 320, 320, 1, -212, 323, 323, 1, -245, 324, 324, 1, -214, 325,
       325, 1, -247, 326, 326, 1, -216, 327, 327, 1, -249, 328, 328, 1, -218,
       329, 329, 1, -219, 332, 332, 1, -253, 333, 333, 1, -222, 334, 334, 1,
       -255, 335, 335, 1, -224, 336, 336, 1, -257, 337, 337, 1, -226, 340,
       340, 1, -258, 341, 341, 1, -227, 342, 342, 1, -260, 343, 343, 1, -229,
       344, 344, 1, -262, 345, 345, 1, -231, 346, 346, 1, -263, 347, 347, 1,
       -232, 348, 348, 1, -265, 349, 349, 1, -234, 350, 350, 1, -267, 351,
       351, 1, -236, 352, 352, 1, -269, 353, 353, 1, -238, 354, 354, 1, -270,
       355, 355, 1, -239, 356, 356, 1, -272, 357, 357, 1, -241, 360, 360, 1,
       -275, 361, 361, 1, -244, 362, 362, 1, -277, 363, 363, 1, -246, 364,
       364, 1, -279, 365, 365, 1, -248, 366, 366, 1, -281, 367, 367, 1, -250,
       368, 368, 1, -283, 369, 369, 1, -252, 370, 370, 1, -285, 371, 371, 1,
       -254, 372, 372, 1, -285, 373, 373, 1, -254, 374, 374, 1, -285, 375,
       375, 1, -254, 376, 377, 1, -287, 378, 378, 1, -256, 379, 379, 1, -289,
       380, 380, 1, -258, 381, 381, 1, -291, 382, 382, 1, -260, 383, 383, 1,
       -268, 416, 416, 1, -337, 417, 417, 1, -306, 431, 431, 1, -346, 432,
       432, 1, -315, 461, 461, 1, -396, 462, 462, 1, -365, 463, 463, 1, -390,
       464, 464, 1, -359, 465, 465, 1, -386, 466, 466, 1, -355, 467, 467, 1,
       -382, 468, 468, 1, -351, 469, 469, 1, -384, 470, 470, 1, -353, 471,
       471, 1, -386, 472, 472, 1, -355, 473, 473, 1, -388, 474, 474, 1, -357,
       475, 475, 1, -390, 476, 476, 1, -359, 478, 478, 1, -413, 479, 479, 1,
       -382, 480, 480, 1, -415, 481, 481, 1, -384, 486, 486, 1, -415, 487,
       487, 1, -384, 488, 488, 1, -413, 489, 489, 1, -382, 490, 490, 1, -411,
       491, 491, 1, -380, 492, 492, 1, -413, 493, 493, 1, -382, 496, 496, 1,
       -390, 500, 500, 1, -429, 501, 501, 1, -398, 504, 504, 1, -426, 505,
       505, 1, -395, 506, 506, 1, -441, 507, 507, 1, -410, 512, 512, 1, -447,
       513, 513, 1, -416, 514, 514, 1, -449, 515, 515, 1, -418, 516, 516, 1,
       -447, 517, 517, 1, -416, 518, 518, 1, -449, 519, 519, 1, -418, 520,
       520, 1, -447, 521, 521, 1, -416, 522, 522, 1, -449, 523, 523, 1, -418,
       524, 524, 1, -445, 525, 525, 1, -414, 526, 526, 1, -447, 527, 527, 1,
       -416, 528, 528, 1, -446, 529, 529, 1, -415, 530, 530, 1, -448, 531,
       531, 1, -417, 532, 532, 1, -447, 533, 533, 1, -416, 534, 534, 1, -449,
       535, 535, 1, -418, 536, 536, 1, -453, 537, 537, 1, -422, 538, 538, 1,
       -454, 539, 539, 1, -423, 542, 542, 1, -470, 543, 543, 1, -439, 550,
       550, 1, -485, 551, 551, 1, -454, 552, 552, 1, -483, 553, 553, 1, -452,
       554, 554, 1, -475, 555, 555, 1, -444, 556, 556, 1, -477, 557, 557, 1,
       -446, 558, 558, 1, -479, 559, 559, 1, -448, 560, 560, 1, -481, 561,
       561, 1, -450, 562, 562, 1, -473, 563, 563, 1, -442, 688, 690, 2, -584,
       691, 691, 1, -577, 695, 695, 1, -576, 696, 696, 1, -575, 728, 728, 1,
       -696, 729, 729, 1, -697, 730, 730, 1, -698, 731, 731, 1, -699, 732,
       732, 1, -700, 733, 733, 1, -701, 737, 737, 1, -629, 738, 738, 1, -623,
       739, 739, 1, -619, 890, 890, 1, -858, 894, 894, 1, -835, 900, 900, 1,
       -868, 901, 901, 1, -869, 7468, 7468, 1, -7403, 7470, 7472, 2, -7404,
       7473, 7475, 2, -7404, 7476, 7482, 1, -7404, 7484, 7484, 1, -7405,
       7486, 7486, 1, -7406, 7487, 7487, 1, -7405, 7488, 7489, 1, -7404,
       7490, 7490, 1, -7403, 7491, 7491, 1, -7394, 7495, 7495, 1, -7397,
       7496, 7497, 1, -7396, 7501, 7501, 1, -7398, 7503, 7503, 1, -7396,
       7504, 7506, 2, -7395, 7510, 7510, 1, -7398, 7511, 7512, 1, -7395,
       7515, 7515, 1, -7397, 7522, 7522, 1, -7417, 7523, 7523, 1, -7409,
       7524, 7525, 1, -7407, 7580, 7580, 1, -7481, 7584, 7584, 1, -7482,
       7611, 7611, 1, -7489, 7680, 7680, 1, -7615, 7681, 7681, 1, -7584,
       7682, 7682, 1, -7616, 7683, 7683, 1, -7585, 7684, 7684, 1, -7618,
       7685, 7685, 1, -7587, 7686, 7686, 1, -7620, 7687, 7687, 1, -7589,
       7688, 7688, 1, -7621, 7689, 7689, 1, -7590, 7690, 7690, 1, -7622,
       7691, 7691, 1, -7591, 7692, 7692, 1, -7624, 7693, 7693, 1, -7593,
       7694, 7694, 1, -7626, 7695, 7695, 1, -7595, 7696, 7696, 1, -7628,
       7697, 7697, 1, -7597, 7698, 7698, 1, -7630, 7699, 7699, 1, -7599,
       7700, 7700, 1, -7631, 7701, 7701, 1, -7600, 7702, 7702, 1, -7633,
       7703, 7703, 1, -7602, 7704, 7704, 1, -7635, 7705, 7705, 1, -7604,
       7706, 7706, 1, -7637, 7707, 7707, 1, -7606, 7708, 7708, 1, -7639,
       7709, 7709, 1, -7608, 7710, 7710, 1, -7640, 7711, 7711, 1, -7609,
       7712, 7712, 1, -7641, 7713, 7713, 1, -7610, 7714, 7714, 1, -7642,
       7715, 7715, 1, -7611, 7716, 7716, 1, -7644, 7717, 7717, 1, -7613,
       7718, 7718, 1, -7646, 7719, 7719, 1, -7615, 7720, 7720, 1, -7648,
       7721, 7721, 1, -7617, 7722, 7722, 1, -7650, 7723, 7723, 1, -7619,
       7724, 7724, 1, -7651, 7725, 7725, 1, -7620, 7726, 7726, 1, -7653,
       7727, 7727, 1, -7622, 7728, 7728, 1, -7653, 7729, 7729, 1, -7622,
       7730, 7730, 1, -7655, 7731, 7731, 1, -7624, 7732, 7732, 1, -7657,
       7733, 7733, 1, -7626, 7734, 7734, 1, -7658, 7735, 7735, 1, -7627,
       7736, 7736, 1, -7660, 7737, 7737, 1, -7629, 7738, 7738, 1, -7662,
       7739, 7739, 1, -7631, 7740, 7740, 1, -7664, 7741, 7741, 1, -7633,
       7742, 7742, 1, -7665, 7743, 7743, 1, -7634, 7744, 7744, 1, -7667,
       7745, 7745, 1, -7636, 7746, 7746, 1, -7669, 7747, 7747, 1, -7638,
       7748, 7748, 1, -7670, 7749, 7749, 1, -7639, 7750, 7750, 1, -7672,
       7751, 7751, 1, -7641, 7752, 7752, 1, -7674, 7753, 7753, 1, -7643,
       7754, 7754, 1, -7676, 7755, 7755, 1, -7645, 7756, 7756, 1, -7677,
       7757, 7757, 1, -7646, 7758, 7758, 1, -7679, 7759, 7759, 1, -7648,
       7760, 7760, 1, -7681, 7761, 7761, 1, -7650, 7762, 7762, 1, -7683,
       7763, 7763, 1, -7652, 7764, 7764, 1, -7684, 7765, 7765, 1, -7653,
       7766, 7766, 1, -7686, 7767, 7767, 1, -7655, 7768, 7768, 1, -7686,
       7769, 7769, 1, -7655, 7770, 7770, 1, -7688, 7771, 7771, 1, -7657,
       7772, 7772, 1, -7690, 7773, 7773, 1, -7659, 7774, 7774, 1, -7692,
       7775, 7775, 1, -7661, 7776, 7776, 1, -7693, 7777, 7777, 1, -7662,
       7778, 7778, 1, -7695, 7779, 7779, 1, -7664, 7780, 7780, 1, -7697,
       7781, 7781, 1, -7666, 7782, 7782, 1, -7699, 7783, 7783, 1, -7668,
       7784, 7784, 1, -7701, 7785, 7785, 1, -7670, 7786, 7786, 1, -7702,
       7787, 7787, 1, -7671, 7788, 7788, 1, -7704, 7789, 7789, 1, -7673,
       7790, 7790, 1, -7706, 7791, 7791, 1, -7675, 7792, 7792, 1, -7708,
       7793, 7793, 1, -7677, 7794, 7794, 1, -7709, 7795, 7795, 1, -7678,
       7796, 7796, 1, -7711, 7797, 7797, 1, -7680, 7798, 7798, 1, -7713,
       7799, 7799, 1, -7682, 7800, 7800, 1, -7715, 7801, 7801, 1, -7684,
       7802, 7802, 1, -7717, 7803, 7803, 1, -7686, 7804, 7804, 1, -7718,
       7805, 7805, 1, -7687, 7806, 7806, 1, -7720, 7807, 7807, 1, -7689,
       7808, 7808, 1, -7721, 7809, 7809, 1, -7690, 7810, 7810, 1, -7723,
       7811, 7811, 1, -7692, 7812, 7812, 1, -7725, 7813, 7813, 1, -7694,
       7814, 7814, 1, -7727, 7815, 7815, 1, -7696, 7816, 7816, 1, -7729,
       7817, 7817, 1, -7698, 7818, 7818, 1, -7730, 7819, 7819, 1, -7699,
       7820, 7820, 1, -7732, 7821, 7821, 1, -7701, 7822, 7822, 1, -7733,
       7823, 7823, 1, -7702, 7824, 7824, 1, -7734, 7825, 7825, 1, -7703,
       7826, 7826, 1, -7736, 7827, 7827, 1, -7705, 7828, 7828, 1, -7738,
       7829, 7829, 1, -7707, 7830, 7830, 1, -7726, 7831, 7831, 1, -7715,
       7832, 7832, 1, -7713, 7833, 7833, 1, -7712, 7834, 7834, 1, -7737,
       7835, 7835, 1, -7720, 7840, 7840, 1, -7775, 7841, 7841, 1, -7744,
       7842, 7842, 1, -7777, 7843, 7843, 1, -7746, 7844, 7844, 1, -7779,
       7845, 7845, 1, -7748, 7846, 7846, 1, -7781, 7847, 7847, 1, -7750,
       7848, 7848, 1, -7783, 7849, 7849, 1, -7752, 7850, 7850, 1, -7785,
       7851, 7851, 1, -7754, 7852, 7852, 1, -7787, 7853, 7853, 1, -7756,
       7854, 7854, 1, -7789, 7855, 7855, 1, -7758, 7856, 7856, 1, -7791,
       7857, 7857, 1, -7760, 7858, 7858, 1, -7793, 7859, 7859, 1, -7762,
       7860, 7860, 1, -7795, 7861, 7861, 1, -7764, 7862, 7862, 1, -7797,
       7863, 7863, 1, -7766, 7864, 7864, 1, -7795, 7865, 7865, 1, -7764,
       7866, 7866, 1, -7797, 7867, 7867, 1, -7766, 7868, 7868, 1, -7799,
       7869, 7869, 1, -7768, 7870, 7870, 1, -7801, 7871, 7871, 1, -7770,
       7872, 7872, 1, -7803, 7873, 7873, 1, -7772, 7874, 7874, 1, -7805,
       7875, 7875, 1, -7774, 7876, 7876, 1, -7807, 7877, 7877, 1, -7776,
       7878, 7878, 1, -7809, 7879, 7879, 1, -7778, 7880, 7880, 1, -7807,
       7881, 7881, 1, -7776, 7882, 7882, 1, -7809, 7883, 7883, 1, -7778,
       7884, 7884, 1, -7805, 7885, 7885, 1, -7774, 7886, 7886, 1, -7807,
       7887, 7887, 1, -7776, 7888, 7888, 1, -7809, 7889, 7889, 1, -7778,
       7890, 7890, 1, -7811, 7891, 7891, 1, -7780, 7892, 7892, 1, -7813,
       7893, 7893, 1, -7782, 7894, 7894, 1, -7815, 7895, 7895, 1, -7784,
       7896, 7896, 1, -7817, 7897, 7897, 1, -7786, 7898, 7898, 1, -7819,
       7899, 7899, 1, -7788, 7900, 7900, 1, -7821, 7901, 7901, 1, -7790,
       7902, 7902, 1, -7823, 7903, 7903, 1, -7792, 7904, 7904, 1, -7825,
       7905, 7905, 1, -7794, 7906, 7906, 1, -7827, 7907, 7907, 1, -7796,
       7908, 7908, 1, -7823, 7909, 7909, 1, -7792, 7910, 7910, 1, -7825,
       7911, 7911, 1, -7794, 7912, 7912, 1, -7827, 7913, 7913, 1, -7796,
       7914, 7914, 1, -7829, 7915, 7915, 1, -7798, 7916, 7916, 1, -7831,
       7917, 7917, 1, -7800, 7918, 7918, 1, -7833, 7919, 7919, 1, -7802,
       7920, 7920, 1, -7835, 7921, 7921, 1, -7804, 7922, 7922, 1, -7833,
       7923, 7923, 1, -7802, 7924, 7924, 1, -7835, 7925, 7925, 1, -7804,
       7926, 7926, 1, -7837, 7927, 7927, 1, -7806, 7928, 7928, 1, -7839,
       7929, 7929, 1, -7808, 8125, 8125, 1, -8093, 8127, 8127, 1, -8095,
       8128, 8128, 1, -8096, 8129, 8129, 1, -8097, 8141, 8141, 1, -8109,
       8142, 8142, 1, -8110, 8143, 8143, 1, -8111, 8157, 8157, 1, -8125,
       8158, 8158, 1, -8126, 8159, 8159, 1, -8127, 8173, 8173, 1, -8141,
       8174, 8174, 1, -8142, 8175, 8175, 1, -8079, 8189, 8189, 1, -8157,
       8190, 8190, 1, -8158, 8192, 8192, 1, -8160, 8193, 8193, 1, -8161,
       8194, 8194, 1, -8162, 8195, 8195, 1, -8163, 8196, 8196, 1, -8164,
       8197, 8197, 1, -8165, 8198, 8198, 1, -8166, 8199, 8199, 1, -8167,
       8200, 8200, 1, -8168, 8201, 8201, 1, -8169, 8202, 8202, 1, -8170,
       8215, 8215, 1, -8183, 8228, 8228, 1, -8182, 8239, 8239, 1, -8207,
       8254, 8254, 1, -8222, 8287, 8287, 1, -8255, 8304, 8304, 1, -8256,
       8305, 8305, 1, -8200, 8308, 8313, 1, -8256, 8314, 8314, 1, -8271,
       8316, 8316, 1, -8255, 8317, 8318, 1, -8277, 8319, 8319, 1, -8209,
       8320, 8329, 1, -8272, 8330, 8330, 1, -8287, 8332, 8332, 1, -8271,
       8333, 8334, 1, -8293, 8336, 8336, 1, -8239, 8337, 8337, 1, -8236,
       8338, 8338, 1, -8227, 8339, 8339, 1, -8219, 8341, 8341, 1, -8237,
       8342, 8345, 1, -8235, 8346, 8346, 1, -8234, 8347, 8348, 1, -8232,
       8450, 8450, 1, -8383, 8451, 8451, 1, -8384, 8457, 8457, 1, -8387,
       8458, 8458, 1, -8355, 8459, 8459, 1, -8387, 8460, 8460, 1, -8388,
       8461, 8461, 1, -8389, 8462, 8462, 1, -8358, 8464, 8464, 1, -8391,
       8465, 8465, 1, -8392, 8466, 8466, 1, -8390, 8467, 8467, 1, -8359,
       8469, 8469, 1, -8391, 8473, 8475, 1, -8393, 8476, 8476, 1, -8394,
       8477, 8477, 1, -8395, 8484, 8484, 1, -8394, 8488, 8488, 1, -8398,
       8490, 8490, 1, -8415, 8491, 8493, 1, -8426, 8495, 8495, 1, -8394,
       8496, 8497, 1, -8427, 8499, 8499, 1, -8422, 8500, 8500, 1, -8389,
       8505, 8505, 1, -8400, 8517, 8517, 1, -8449, 8518, 8519, 1, -8418,
       8520, 8521, 1, -8415, 8543, 8543, 1, -8494, 8544, 8544, 1, -8471,
       8548, 8548, 1, -8462, 8553, 8553, 1, -8465, 8556, 8556, 1, -8480,
       8557, 8558, 1, -8490, 8559, 8559, 1, -8482, 8560, 8560, 1, -8455,
       8564, 8564, 1, -8446, 8569, 8569, 1, -8449, 8572, 8572, 1, -8464,
       8573, 8574, 1, -8474, 8575, 8575, 1, -8466, 8800, 8800, 1, -8739,
       8814, 8814, 1, -8754, 8815, 8815, 1, -8753, 9312, 9320, 1, -9263,
       9398, 9423, 1, -9333, 9424, 9449, 1, -9327, 9450, 9450, 1, -9402,
       11388, 11388, 1, -11282, 11389, 11389, 1, -11303, 12288, 12288, 1,
       -12256, 12443, 12443, 1, -12411, 12444, 12444, 1, -12412, 12992,
       13000, 1, -12943, 13144, 13153, 1, -13096, 13186, 13186, 1, -13121,
       13196, 13196, 1, -13126, 13197, 13197, 1, -13094, 13205, 13205, 1,
       -13097, 13211, 13211, 1, -13102, 13234, 13234, 1, -13119, 13238,
       13238, 1, -13152, 13244, 13244, 1, -13157, 13248, 13248, 1, -13141,
       13249, 13249, 1, -13172, 13280, 13288, 1, -13231, 42994, 42994, 1,
       -42927, 42995, 42995, 1, -42925, 42996, 42996, 1, -42915, 64297,
       64297, 1, -64254, 64606, 64606, 1, -64574, 64607, 64607, 1, -64575,
       64608, 64608, 1, -64576, 64609, 64609, 1, -64577, 64610, 64610, 1,
       -64578, 64611, 64611, 1, -64579, 65019, 65019, 1, -64987, 65040,
       65040, 1, -64996, 65043, 65044, 1, -64985, 65045, 65045, 1, -65012,
       65046, 65046, 1, -64983, 65075, 65075, 1, -64980, 65076, 65076, 1,
       -64981, 65077, 65078, 1, -65037, 65079, 65079, 1, -64956, 65080,
       65080, 1, -64955, 65095, 65095, 1, -65004, 65096, 65096, 1, -65003,
       65097, 65097, 1, -65065, 65098, 65098, 1, -65066, 65099, 65099, 1,
       -65067, 65100, 65100, 1, -65068, 65101, 65101, 1, -65006, 65102,
       65102, 1, -65007, 65103, 65103, 1, -65008, 65104, 65106, 2, -65060,
       65108, 65108, 1, -65049, 65109, 65109, 1, -65051, 65110, 65110, 1,
       -65047, 65111, 65111, 1, -65078, 65113, 65114, 1, -65073, 65115,
       65115, 1, -64992, 65116, 65116, 1, -64991, 65119, 65119, 1, -65084,
       65120, 65120, 1, -65082, 65121, 65122, 1, -65079, 65123, 65123, 1,
       -65078, 65124, 65124, 1, -65064, 65125, 65125, 1, -65063, 65126,
       65126, 1, -65065, 65128, 65128, 1, -65036, 65129, 65130, 1, -65093,
       65131, 65131, 1, -65067, 65136, 65136, 1, -65104, 65138, 65138, 1,
       -65106, 65140, 65140, 1, -65108, 65142, 65142, 1, -65110, 65144,
       65144, 1, -65112, 65146, 65146, 1, -65114, 65148, 65148, 1, -65116,
       65150, 65150, 1, -65118, 65281, 65374, 1, -65248, 65507, 65507, 1,
       -65475, 67493, 67493, 1, -67380, 119808, 119833, 1, -119743, 119834,
       119859, 1, -119737, 119860, 119885, 1, -119795, 119886, 119892, 1,
       -119789, 119894, 119911, 1, -119789, 119912, 119937, 1, -119847,
       119938, 119963, 1, -119841, 119964, 119966, 2, -119899, 119967,
       119967, 1, -119899, 119970, 119970, 1, -119899, 119973, 119974, 1,
       -119899, 119977, 119980, 1, -119899, 119982, 119989, 1, -119899,
       119990, 119993, 1, -119893, 119995, 119997, 2, -119893, 119998,
       120003, 1, -119893, 120005, 120015, 1, -119893, 120016, 120041, 1,
       -119951, 120042, 120067, 1, -119945, 120068, 120069, 1, -120003,
       120071, 120074, 1, -120003, 120077, 120084, 1, -120003, 120086,
       120092, 1, -120003, 120094, 120119, 1, -119997, 120120, 120121, 1,
       -120055, 120123, 120126, 1, -120055, 120128, 120132, 1, -120055,
       120134, 120134, 1, -120055, 120138, 120144, 1, -120055, 120146,
       120171, 1, -120049, 120172, 120197, 1, -120107, 120198, 120223, 1,
       -120101, 120224, 120249, 1, -120159, 120250, 120275, 1, -120153,
       120276, 120301, 1, -120211, 120302, 120327, 1, -120205, 120328,
       120353, 1, -120263, 120354, 120379, 1, -120257, 120380, 120405, 1,
       -120315, 120406, 120431, 1, -120309, 120432, 120457, 1, -120367,
       120458, 120483, 1, -120361, 120782, 120791, 1, -120734, 120792,
       120801, 1, -120744, 120802, 120811, 1, -120754, 120812, 120821, 1,
       -120764, 120822, 120831, 1, -120774, 127274, 127274, 1, -127191,
       127275, 127275, 1, -127208, 127276, 127276, 1, -127194, 127280,
       127305, 1, -127215, 130032, 130041, 1, -129984 >>

\* those whose decomposition holds two or more ASCII characters
FoldKeys ==
    << 188, 189, 190, 306, 307, 452, 453, 454, 455, 456, 457, 458, 459, 460,
       497, 498, 499, 8229, 8230, 8252, 8263, 8264, 8265, 8360, 8448, 8449,
       8453, 8454, 8470, 8480, 8481, 8482, 8507, 8528, 8529, 8530, 8531,
       8532, 8533, 8534, 8535, 8536, 8537, 8538, 8539, 8540, 8541, 8542,
       8545, 8546, 8547, 8549, 8550, 8551, 8552, 8554, 8555, 8561, 8562,
       8563, 8565, 8566, 8567, 8568, 8570, 8571, 8585, 9321, 9322, 9323,
       9324, 9325, 9326, 9327, 9328, 9329, 9330, 9331, 9332, 9333, 9334,
       9335, 9336, 9337, 9338, 9339, 9340, 9341, 9342, 9343, 9344, 9345,
       9346, 9347, 9348, 9349, 9350, 9351, 9352, 9353, 9354, 9355, 9356,
       9357, 9358, 9359, 9360, 9361, 9362, 9363, 9364, 9365, 9366, 9367,
       9368, 9369, 9370, 9371, 9372, 9373, 9374, 9375, 9376, 9377, 9378,
       9379, 9380, 9381, 9382, 9383, 9384, 9385, 9386, 9387, 9388, 9389,
       9390, 9391, 9392, 9393, 9394, 9395, 9396, 9397, 10868, 10869, 10870,
       12800, 12801, 12802, 12803, 12804, 12805, 12806, 12807, 12808, 12809,
       12810, 12811, 12812, 12813, 12814, 12815, 12816, 12817, 12818, 12819,
       12820, 12821, 12822, 12823, 12824, 12825, 12826, 12827, 12828, 12829,
       12830, 12832, 12833, 12834, 12835, 12836, 12837, 12838, 12839, 12840,
       12841, 12842, 12843, 12844, 12845, 12846, 12847, 12848, 12849, 12850,
       12851, 12852, 12853, 12854, 12855, 12856, 12857, 12858, 12859, 12860,
       12861, 12862, 12863, 12864, 12865, 12866, 12867, 12880, 12881, 12882,
       12883, 12884, 12885, 12886, 12887, 12888, 12889, 12890, 12891, 12892,
       12893, 12894, 12895, 12977, 12978, 12979, 12980, 12981, 12982, 12983,
       12984, 12985, 12986, 12987, 12988, 12989, 12990, 12991, 13001, 13002,
       13003, 13004, 13005, 13006, 13007, 13154, 13155, 13156, 13157, 13158,
       13159, 13160, 13161, 13162, 13163, 13164, 13165, 13166, 13167, 13168,
       13169, 13170, 13171, 13172, 13173, 13174, 13175, 13176, 13177, 13178,
       13184, 13185, 13187, 13188, 13189, 13190, 13191, 13192, 13193, 13194,
       13195, 13198, 13199, 13200, 13201, 13202, 13203, 13204, 13206, 13207,
       13208, 13209, 13210, 13212, 13213, 13214, 13215, 13216, 13217, 13218,
       13219, 13220, 13221, 13222, 13223, 13224, 13225, 13226, 13227, 13228,
       13229, 13230, 13231, 13232, 13233, 13235, 13236, 13237, 13239, 13240,
       13241, 13242, 13243, 13245, 13246, 13247, 13250, 13251, 13252, 13253,
       13254, 13255, 13256, 13257, 13258, 13259, 13260, 13261, 13262, 13263,
       13264, 13265, 13266, 13267, 13268, 13269, 13270, 13271, 13272, 13273,
       13274, 13275, 13276, 13277, 13278, 13279, 13289, 13290, 13291, 13292,
       13293, 13294, 13295, 13296, 13297, 13298, 13299, 13300, 13301, 13302,
       13303, 13304, 13305, 13306, 13307, 13308, 13309, 13310, 13311, 64256,
       64257, 64258, 64259, 64260, 64261, 64262, 65018, 65049, 65072, 127232,
       127233, 127234, 127235, 127236, 127237, 127238, 127239, 127240,
       127241, 127242, 127248, 127249, 127250, 127251, 127252, 127253,
       127254, 127255, 127256, 127257, 127258, 127259, 127260, 127261,
       127262, 127263, 127264, 127265, 127266, 127267, 127268, 127269,
       127270, 127271, 127272, 127273, 127277, 127278, 127306, 127307,
       127308, 127309, 127310, 127311, 127338, 127339, 127340, 127376 >>

\* the ASCII characters of their decompositions, for FoldKeys in order
FoldVals ==
    << << 49, 52 >>, << 49, 50 >>, << 51, 52 >>, << 73, 74 >>,
       << 105, 106 >>, << 68, 90 >>, << 68, 122 >>, << 100, 122 >>,
       << 76, 74 >>, << 76, 106 >>, << 108, 106 >>, << 78, 74 >>,
       << 78, 106 >>, << 110, 106 >>, << 68, 90 >>, << 68, 122 >>,
       << 100, 122 >>, << 46, 46 >>, << 46, 46, 46 >>, << 33, 33 >>,
       << 63, 63 >>, << 63, 33 >>, << 33, 63 >>, << 82, 115 >>,
       << 97, 47, 99 >>, << 97, 47, 115 >>, << 99, 47, 111 >>,
       << 99, 47, 117 >>, << 78, 111 >>, << 83, 77 >>, << 84, 69, 76 >>,
       << 84, 77 >>, << 70, 65, 88 >>, << 49, 55 >>, << 49, 57 >>,
       << 49, 49, 48 >>, << 49, 51 >>, << 50, 51 >>, << 49, 53 >>,
       << 50, 53 >>, << 51, 53 >>, << 52, 53 >>, << 49, 54 >>, << 53, 54 >>,
       << 49, 56 >>, << 51, 56 >>, << 53, 56 >>, << 55, 56 >>, << 73, 73 >>,
       << 73, 73, 73 >>, << 73, 86 >>, << 86, 73 >>, << 86, 73, 73 >>,
       << 86, 73, 73, 73 >>, << 73, 88 >>, << 88, 73 >>, << 88, 73, 73 >>,
       << 105, 105 >>, << 105, 105, 105 >>, << 105, 118 >>, << 118, 105 >>,
       << 118, 105, 105 >>, << 118, 105, 105, 105 >>, << 105, 120 >>,
       << 120, 105 >>, << 120, 105, 105 >>, << 48, 51 >>, << 49, 48 >>,
       << 49, 49 >>, << 49, 50 >>, << 49, 51 >>, << 49, 52 >>, << 49, 53 >>,
       << 49, 54 >>, << 49, 55 >>, << 49, 56 >>, << 49, 57 >>, << 50, 48 >>,
       << 40, 49, 41 >>, << 40, 50, 41 >>, << 40, 51, 41 >>,
       << 40, 52, 41 >>, << 40, 53, 41 >>, << 40, 54, 41 >>,
       << 40, 55, 41 >>, << 40, 56, 41 >>, << 40, 57, 41 >>,
       << 40, 49, 48, 41 >>, << 40, 49, 49, 41 >>, << 40, 49, 50, 41 >>,
       << 40, 49, 51, 41 >>, << 40, 49, 52, 41 >>, << 40, 49, 53, 41 >>,
       << 40, 49, 54, 41 >>, << 40, 49, 55, 41 >>, << 40, 49, 56, 41 >>,
       << 40, 49, 57, 41 >>, << 40, 50, 48, 41 >>, << 49, 46 >>,
       << 50, 46 >>, << 51, 46 >>, << 52, 46 >>, << 53, 46 >>, << 54, 46 >>,
       << 55, 46 >>, << 56, 46 >>, << 57, 46 >>, << 49, 48, 46 >>,
       << 49, 49, 46 >>, << 49, 50, 46 >>, << 49, 51, 46 >>,
       << 49, 52, 46 >>, << 49, 53, 46 >>, << 49, 54, 46 >>,
       << 49, 55, 46 >>, << 49, 56, 46 >>, << 49, 57, 46 >>,
       << 50, 48, 46 >>, << 40, 97, 41 >>, << 40, 98, 41 >>,
       << 40, 99, 41 >>, << 40, 100, 41 >>, << 40, 101, 41 >>,
       << 40, 102, 41 >>, << 40, 103, 41 >>, << 40, 104, 41 >>,
       << 40, 105, 41 >>, << 40, 106, 41 >>, << 40, 107, 41 >>,
       << 40, 108, 41 >>, << 40, 109, 41 >>, << 40, 110, 41 >>,
       << 40, 111, 41 >>, << 40, 112, 41 >>, << 40, 113, 41 >>,
       << 40, 114, 41 >>, << 40, 115, 41 >>, << 40, 116, 41 >>,
       << 40, 117, 41 >>, << 40, 118, 41 >>, << 40, 119, 41 >>,
       << 40, 120, 41 >>, << 40, 121, 41 >>, << 40, 122, 41 >>,
       << 58, 58, 61 >>, << 61, 61 >>, << 61, 61, 61 >>, << 40, 41 >>,
       << 40, 41 >>, << 40, 41 >>, << 40, 41 >>, << 40, 41 >>, << 40, 41 >>,
       << 40, 41 >>, << 40, 41 >>, << 40, 41 >>, << 40, 41 >>, << 40, 41 >>,
       << 40, 41 >>, << 40, 41 >>, << 40, 41 >>, << 40, 41 >>, << 40, 41 >>,
       << 40, 41 >>, << 40, 41 >>, << 40, 41 >>, << 40, 41 >>, << 40, 41 >>,
       << 40, 41 >>, << 40, 41 >>, << 40, 41 >>, << 40, 41 >>, << 40, 41 >>,
       << 40, 41 >>, << 40, 41 >>, << 40, 41 >>, << 40, 41 >>, << 40, 41 >>,
       << 40, 41 >>, << 40, 41 >>, << 40, 41 >>, << 40, 41 >>, << 40, 41 >>,
       << 40, 41 >>, << 40, 41 >>, << 40, 41 >>, << 40, 41 >>, << 40, 41 >>,
       << 40, 41 >>, << 40, 41 >>, << 40, 41 >>, << 40, 41 >>, << 40, 41 >>,
       << 40, 41 >>, << 40, 41 >>, << 40, 41 >>, << 40, 41 >>, << 40, 41 >>,
       << 40, 41 >>, << 40, 41 >>, << 40, 41 >>, << 40, 41 >>, << 40, 41 >>,
       << 40, 41 >>, << 40, 41 >>, << 40, 41 >>, << 40, 41 >>, << 40, 41 >>,
       << 40, 41 >>, << 40, 41 >>, << 40, 41 >>, << 40, 41 >>, << 40, 41 >>,
       << 40, 41 >>, << 80, 84, 69 >>, << 50, 49 >>, << 50, 50 >>,
       << 50, 51 >>, << 50, 52 >>, << 50, 53 >>, << 50, 54 >>, << 50, 55 >>,
       << 50, 56 >>, << 50, 57 >>, << 51, 48 >>, << 51, 49 >>, << 51, 50 >>,
       << 51, 51 >>, << 51, 52 >>, << 51, 53 >>, << 51, 54 >>, << 51, 55 >>,
       << 51, 56 >>, << 51, 57 >>, << 52, 48 >>, << 52, 49 >>, << 52, 50 >>,
       << 52, 51 >>, << 52, 52 >>, << 52, 53 >>, << 52, 54 >>, << 52, 55 >>,
       << 52, 56 >>, << 52, 57 >>, << 53, 48 >>, << 49, 48 >>, << 49, 49 >>,
       << 49, 50 >>, << 72, 103 >>, << 101, 114, 103 >>, << 101, 86 >>,
       << 76, 84, 68 >>, << 49, 48 >>, << 49, 49 >>, << 49, 50 >>,
       << 49, 51 >>, << 49, 52 >>, << 49, 53 >>, << 49, 54 >>, << 49, 55 >>,
       << 49, 56 >>, << 49, 57 >>, << 50, 48 >>, << 50, 49 >>, << 50, 50 >>,
       << 50, 51 >>, << 50, 52 >>, << 104, 80, 97 >>, << 100, 97 >>,
       << 65, 85 >>, << 98, 97, 114 >>, << 111, 86 >>, << 112, 99 >>,
       << 100, 109 >>, << 100, 109, 50 >>, << 100, 109, 51 >>, << 73, 85 >>,
       << 112, 65 >>, << 110, 65 >>, << 109, 65 >>, << 107, 65 >>,
       << 75, 66 >>, << 77, 66 >>, << 71, 66 >>, << 99, 97, 108 >>,
       << 107, 99, 97, 108 >>, << 112, 70 >>, << 110, 70 >>, << 109, 103 >>,
       << 107, 103 >>, << 72, 122 >>, << 107, 72, 122 >>, << 77, 72, 122 >>,
       << 71, 72, 122 >>, << 84, 72, 122 >>, << 109, 108 >>, << 100, 108 >>,
       << 107, 108 >>, << 102, 109 >>, << 110, 109 >>, << 109, 109 >>,
       << 99, 109 >>, << 107, 109 >>, << 109, 109, 50 >>, << 99, 109, 50 >>,
       << 109, 50 >>, << 107, 109, 50 >>, << 109, 109, 51 >>,
       << 99, 109, 51 >>, << 109, 51 >>, << 107, 109, 51 >>, << 109, 115 >>,
       << 109, 115, 50 >>, << 80, 97 >>, << 107, 80, 97 >>, << 77, 80, 97 >>,
       << 71, 80, 97 >>, << 114, 97, 100 >>, << 114, 97, 100, 115 >>,
       << 114, 97, 100, 115, 50 >>, << 112, 115 >>, << 110, 115 >>,
       << 109, 115 >>, << 112, 86 >>, << 110, 86 >>, << 109, 86 >>,
       << 107, 86 >>, << 77, 86 >>, << 112, 87 >>, << 110, 87 >>,
       << 109, 87 >>, << 107, 87 >>, << 77, 87 >>, << 97, 46, 109, 46 >>,
       << 66, 113 >>, << 99, 99 >>, << 99, 100 >>, << 67, 107, 103 >>,
       << 67, 111, 46 >>, << 100, 66 >>, << 71, 121 >>, << 104, 97 >>,
       << 72, 80 >>, << 105, 110 >>, << 75, 75 >>, << 75, 77 >>,
       << 107, 116 >>, << 108, 109 >>, << 108, 110 >>, << 108, 111, 103 >>,
       << 108, 120 >>, << 109, 98 >>, << 109, 105, 108 >>,
       << 109, 111, 108 >>, << 80, 72 >>, << 112, 46, 109, 46 >>,
       << 80, 80, 77 >>, << 80, 82 >>, << 115, 114 >>, << 83, 118 >>,
       << 87, 98 >>, << 86, 109 >>, << 65, 109 >>, << 49, 48 >>,
       << 49, 49 >>, << 49, 50 >>, << 49, 51 >>, << 49, 52 >>, << 49, 53 >>,
       << 49, 54 >>, << 49, 55 >>, << 49, 56 >>, << 49, 57 >>, << 50, 48 >>,
       << 50, 49 >>, << 50, 50 >>, << 50, 51 >>, << 50, 52 >>, << 50, 53 >>,
       << 50, 54 >>, << 50, 55 >>, << 50, 56 >>, << 50, 57 >>, << 51, 48 >>,
       << 51, 49 >>, << 103, 97, 108 >>, << 102, 102 >>, << 102, 105 >>,
       << 102, 108 >>, << 102, 102, 105 >>, << 102, 102, 108 >>,
       << 115, 116 >>, << 115, 116 >>, << 32, 32, 32 >>, << 46, 46, 46 >>,
       << 46, 46 >>, << 48, 46 >>, << 48, 44 >>, << 49, 44 >>, << 50, 44 >>,
       << 51, 44 >>, << 52, 44 >>, << 53, 44 >>, << 54, 44 >>, << 55, 44 >>,
       << 56, 44 >>, << 57, 44 >>, << 40, 65, 41 >>, << 40, 66, 41 >>,
       << 40, 67, 41 >>, << 40, 68, 41 >>, << 40, 69, 41 >>,
       << 40, 70, 41 >>, << 40, 71, 41 >>, << 40, 72, 41 >>,
       << 40, 73, 41 >>, << 40, 74, 41 >>, << 40, 75, 41 >>,
       << 40, 76, 41 >>, << 40, 77, 41 >>, << 40, 78, 41 >>,
       << 40, 79, 41 >>, << 40, 80, 41 >>, << 40, 81, 41 >>,
       << 40, 82, 41 >>, << 40, 83, 41 >>, << 40, 84, 41 >>,
       << 40, 85, 41 >>, << 40, 86, 41 >>, << 40, 87, 41 >>,
       << 40, 88, 41 >>, << 40, 89, 41 >>, << 40, 90, 41 >>, << 67, 68 >>,
       << 87, 90 >>, << 72, 86 >>, << 77, 86 >>, << 83, 68 >>, << 83, 83 >>,
       << 80, 80, 86 >>, << 87, 67 >>, << 77, 67 >>, << 77, 68 >>,
       << 77, 82 >>, << 68, 74 >> >>

\* the ASCII characters that the code point n decomposes to, k being the
\* last of FoldKeys that is n or less
FoldedAt(n, k) ==
    IF k > 0 /\ FoldKeys[k] = n
    THEN [j \in 1..Len(FoldVals[k]) |-> Chr(FoldVals[k][j])]
    ELSE << >>

\* the same, d being what FoldRuns adds to n
FoldedBy(n, d) ==
    IF d # 0 THEN << Chr(n + d) >>
    ELSE FoldedAt(n, Locate(FoldKeys, 1, n, 1, Len(FoldKeys)))

FoldOf(c, n) ==
    IF n < 128 THEN << c >> ELSE FoldedBy(n, DeltaIn(FoldRuns, n))

\* unicodedata.normalize("NFKD", c).encode("ascii", "ignore") of one
\* character
AsciiFold(c) ==
    IF Len(c) = 1 THEN << c >> ELSE FoldOf(c, Ord(c))

EmDash == "U+2014"

Dashes == { EmDash, "-" }

Min(a, b) == IF a < b THEN a ELSE b

Max(a, b) == IF a > b THEN a ELSE b

(***************************************************************************)
(* The str methods the parser uses.  Positions are Python's: 0-based, and  *)
(* Slice(s, a, b) is s[a:b].                                               *)
(***************************************************************************)
Slice(s, a, b) == SubSeq(s, a + 1, b)

\* sub in s at position p
StartsAt(s, sub, p) ==
    /\ p + Len(sub) <= Len(s)
    /\ \A k \in 1..Len(sub) : s[p + k] = sub[k]

\* s.find(sub): the first position of sub in s, -1 if none
Find(s, sub) ==
    LET hits == { p \in 0..Len(s) : StartsAt(s, sub, p) }
    IN  IF hits = {} THEN -1 ELSE CHOOSE p \in hits : \A q \in hits : p <= q

\* sub in s
Contains(s, sub) == Find(s, sub) >= 0

\* s.lstrip(chars)
LStripChars(s, chars) ==
    LET keep == { p \in 1..Len(s) : s[p] \notin chars }
    IN  IF keep = {} THEN << >>
        ELSE SubSeq(s, CHOOSE p \in keep : \A q \in keep : p <= q, Len(s))

\* s.rstrip(chars)
RStripChars(s, chars) ==
    LET keep == { p \in 1..Len(s) : s[p] \notin chars }
    IN  IF keep = {} THEN << >>
        ELSE SubSeq(s, 1, CHOOSE p \in keep : \A q \in keep : p >= q)

\* s.strip(chars)
StripChars(s, chars) == RStripChars(LStripChars(s, chars), chars)

\* s.strip()
Strip(s) == StripChars(s, Space)

\* s.split(c) for a one-character separator c: a sequence of texts
RECURSIVE SplitChar(_, _)
SplitChar(s, c) ==
    LET hits == { p \in 1..Len(s) : s[p] = c }
    IN  IF hits = {} THEN << s >>
        ELSE LET p == CHOOSE q \in hits : \A r \in hits : q <= r
             IN  << SubSeq(s, 1, p - 1) >> \o SplitChar(SubSeq(s, p + 1, Len(s)), c)

\* sep.join(parts): the join of the first half of the parts, sep, and the
\* join of the other half
RECURSIVE Join(_, _)
Join(parts, sep) ==
    IF Len(parts) = 0 THEN << >>
    ELSE IF Len(parts) = 1 THEN parts[1]
    ELSE Join(SubSeq(parts, 1, Len(parts) \div 2), sep) \o sep
             \o Join(SubSeq(parts, (Len(parts) \div 2) + 1, Len(parts)), sep)

\* s.replace(old, new)
RECURSIVE Replace(_, _, _)
Replace(s, old, new) ==
    LET p == Find(s, old)
    IN  IF p < 0 THEN s
        ELSE Slice(s, 0, p) \o new \o Replace(Slice(s, p + Len(old), Len(s)), old, new)


(***************************************************************************)
(* Python's re, as a backtracking matcher.  A pattern is a tree; M gives   *)
(* the ways a pattern matches s from a thread (a position and the groups   *)
(* closed so far), in re's order of preference, so that the head of the    *)
(* result is the match re reports: a greedy repetition tries one more      *)
(* round before it stops, a lazy one stops first, an alternation tries its *)
(* branches from the left.  Threads that end at a position an earlier one  *)
(* ends at are dropped: what follows depends on the position alone.        *)
(***************************************************************************)
Inf == -1

\* [...]
Cls(S) == [t |-> "cls", S |-> S]

\* [^...]
NotCls(S) == [t |-> "ncls", S |-> S]

\* .
Dot == NotCls({ "\n" })

\* literal text
Lit(cs) == [t |-> "lit", cs |-> cs]

\* [...] under re.IGNORECASE: with a letter of two cases in it, the class
\* holds the lowercase of its characters and what re takes as equal to
\* them (a character above U+FFFF as it is written), and a character is
\* matched by its lowercase
ClsI(S) ==
    IF \E x \in S : IsCased(x)
    THEN [t |-> "clsi",
          S |-> UNION { IF Ord(x) > 65535 THEN { x }
                        ELSE CaseSet(LowerChar(x)) : x \in S }]
    ELSE Cls(S)

\* a literal character under re.IGNORECASE: a letter of two cases is
\* compiled to its lowercase and what re takes as equal to it, any other
\* character matches itself
Caseless(x) ==
    IF IsCased(x) THEN [t |-> "clsi", S |-> CaseSet(LowerChar(x))]
    ELSE Cls({ x })

\* literal text under re.IGNORECASE
LitI(cs) == [t |-> "liti", cs |-> [k \in 1..Len(cs) |-> Caseless(cs[k])]]

\* \w
WordChar == [t |-> "w"]

\* the patterns that match one character
OneChar == { "cls", "ncls", "clsi", "w" }

\* the one-character pattern c matches the character ch
Accepts(c, ch) ==
    CASE c.t = "cls" -> ch \in c.S
      [] c.t = "ncls" -> ch \notin c.S
      [] c.t = "clsi" -> LowerChar(ch) \in c.S
      [] c.t = "w" -> IsWord(ch)

\* r1 r2 ...
Cat(ps) == [t |-> "cat", ps |-> ps]

\* r1 | r2 | ...
Alt(ps) == [t |-> "alt", ps |-> ps]

\* r{lo,hi}, greedy; hi = Inf for no upper limit
Rep(r, lo, hi) == [t |-> "rep", r |-> r, lo |-> lo, hi |-> hi, greedy |-> TRUE]

\* r{lo,hi}?, lazy
RepLazy(r, lo, hi) == [t |-> "rep", r |-> r, lo |-> lo, hi |-> hi, greedy |-> FALSE]

\* r* r+ r?
Star(r) == Rep(r, 0, Inf)

Plus(r) == Rep(r, 1, Inf)

Opt(r) == Rep(r, 0, 1)

\* (r), the k-th group
Grp(k, r) == [t |-> "grp", k |-> k, r |-> r]

\* ^ (no re.MULTILINE)
Bos == [t |-> "bos"]

\* $ (no re.MULTILINE): the end, or just before a final line break
Eos == [t |-> "eos"]

\* \b
Wb == [t |-> "wb"]

\* (?<!r) for a pattern r that matches texts of n characters only
Nlb(r, n) == [t |-> "nlb", r |-> r, n |-> n]

Thread0(p) == [pos |-> p, caps |-> << >>]

\* the threads of the lists Ls, list after list, without those that end where
\* an earlier one ends
Flat(Ls) ==
    LET nonempty == { i \in 1..Len(Ls) : Len(Ls[i]) > 0 }
    IN  IF nonempty = {} THEN << >>
        ELSE IF Cardinality(nonempty) = 1 THEN Ls[CHOOSE i \in nonempty : TRUE]
        ELSE
        LET idx == UNION { { << i, j >> : j \in 1..Len(Ls[i]) } : i \in nonempty }
            Before(a, b) == a[1] < b[1] \/ (a[1] = b[1] /\ a[2] < b[2])
            keep == { a \in idx : \A b \in idx :
                         Before(b, a) => Ls[b[1]][b[2]].pos # Ls[a[1]][a[2]].pos }
            rk == [a \in keep |-> Cardinality({ b \in keep : ~Before(a, b) })]
        IN  [r \in 1..Cardinality(keep) |->
                LET a == CHOOSE x \in keep : rk[x] = r IN Ls[a[1]][a[2]]]

\* the position before the first of the positions stop, n when there is
\* none
RunStop(stop, n) ==
    IF stop = {} THEN n
    ELSE (CHOOSE q \in stop : \A r \in stop : q <= r) - 1

\* the position where the run of characters from p that a one-character
\* pattern c accepts ends
RunEnd(c, s, p) ==
    RunStop({ q \in (p + 1)..Len(s) : ~Accepts(c, s[q]) }, Len(s))

\* the most repetitions that c{lo,hi} takes of a run of that many characters
RunTop(re, run) == IF re.hi = Inf THEN run ELSE Min(run, re.hi)

\* the threads of c{lo,hi} after th when top repetitions are the most
RepThreads(re, th, top) ==
    IF top < re.lo THEN << >>
    ELSE [k \in 1..(top - re.lo + 1) |->
            [th EXCEPT !.pos = IF re.greedy THEN th.pos + top - (k - 1)
                               ELSE th.pos + re.lo + (k - 1)]]

\* c{lo,hi} for a one-character pattern c: the longest run first when
\* greedy, the shortest first when lazy
MRepClass(re, th, s) ==
    RepThreads(re, th, RunTop(re, RunEnd(re.r, s, th.pos) - th.pos))

RECURSIVE M(_, _, _)
RECURSIVE MCat(_, _, _, _)
RECURSIVE MRep(_, _, _, _, _, _)

M(re, th, s) ==
    CASE re.t \in OneChar ->
            IF th.pos < Len(s) /\ Accepts(re, s[th.pos + 1])
            THEN << [th EXCEPT !.pos = @ + 1] >> ELSE << >>
      [] re.t = "lit" ->
            IF StartsAt(s, re.cs, th.pos)
            THEN << [th EXCEPT !.pos = @ + Len(re.cs)] >> ELSE << >>
      [] re.t = "liti" ->
            IF /\ th.pos + Len(re.cs) <= Len(s)
               /\ \A k \in 1..Len(re.cs) :
                     Accepts(re.cs[k], s[th.pos + k])
            THEN << [th EXCEPT !.pos = @ + Len(re.cs)] >> ELSE << >>
      [] re.t = "cat" -> MCat(re.ps, 1, << th >>, s)
      [] re.t = "alt" -> Flat([k \in 1..Len(re.ps) |-> M(re.ps[k], th, s)])
      [] re.t = "rep" ->
            IF re.r.t \in OneChar THEN MRepClass(re, th, s)
            ELSE MRep(re.r, re.lo, re.hi, re.greedy, th, s)
      [] re.t = "grp" ->
            LET Close(inner) ==
                    [i \in 1..Len(inner) |->
                        [inner[i] EXCEPT
                            !.caps = Append(@, << re.k, th.pos, inner[i].pos >>)]]
            IN  Close(M(re.r, th, s))
      [] re.t = "bos" -> IF th.pos = 0 THEN << th >> ELSE << >>
      [] re.t = "eos" ->
            IF \/ th.pos = Len(s)
               \/ th.pos = Len(s) - 1 /\ s[Len(s)] = "\n"
            THEN << th >> ELSE << >>
      [] re.t = "wb" ->
            IF (th.pos >= 1 /\ IsWord(s[th.pos]))
               # (th.pos < Len(s) /\ IsWord(s[th.pos + 1]))
            THEN << th >> ELSE << >>
      [] re.t = "nlb" ->
            IF /\ th.pos >= re.n
               /\ Len(M(re.r, Thread0(th.pos - re.n), s)) > 0
            THEN << >> ELSE << th >>

\* the parts ps[k], ps[k+1], ... matched one after the other from the
\* threads ths
MCat(ps, k, ths, s) ==
    IF k > Len(ps) \/ Len(ths) = 0 THEN ths
    ELSE MCat(ps, k + 1, Flat([i \in 1..Len(ths) |-> M(ps[k], ths[i], s)]), s)

\* r{lo,hi} for any r: a round must consume text
MRep(r, lo, hi, greedy, th, s) ==
    LET More(one) ==
            Flat([i \in 1..Len(one) |->
                    MRep(r, Max(lo - 1, 0), IF hi > 0 THEN hi - 1 ELSE hi,
                         greedy, one[i], s)])
        Ordered(more, stop) ==
            IF greedy THEN << more, stop >> ELSE << stop, more >>
    IN  Flat(Ordered(More(IF hi = 0 THEN << >>
                          ELSE SelectSeq(M(r, th, s), LAMBDA x : x.pos > th.pos)),
                     IF lo <= 0 THEN << th >> ELSE << >>))

NoMatch == [found |-> FALSE]

\* re.match(re, s) restricted to start at position p
MatchAt(re, s, p) ==
    LET First(ths) ==
            IF Len(ths) = 0 THEN NoMatch
            ELSE [found |-> TRUE, start |-> p, end |-> ths[1].pos,
                  caps |-> ths[1].caps]
    IN  First(M(re, Thread0(p), s))

\* re.match(re, s)
ReMatch(re, s) == MatchAt(re, s, 0)

\* the leftmost match of re in s that starts at p or later
SearchFrom(re, s, p) ==
    LET Leftmost(hits) ==
            IF hits = {} THEN NoMatch
            ELSE MatchAt(re, s, CHOOSE q \in hits : \A r \in hits : q <= r)
    IN  Leftmost({ q \in p..Len(s) : Len(M(re, Thread0(q), s)) > 0 })

\* re.search(re, s)
ReSearch(re, s) == SearchFrom(re, s, 0)

\* m.group(k) of a match m in s: the last span group k closed with
GroupOf(m, k, s) ==
    LET idx == { i \in 1..Len(m.caps) : m.caps[i][1] = k }
        last == CHOOSE i \in idx : \A j \in idx : i >= j
    IN  IF idx = {} THEN << >>
        ELSE Slice(s, m.caps[last][2], m.caps[last][3])

\* re.sub(re, repl, s) for a pattern that matches no empty text
RECURSIVE SubFrom(_, _, _, _)
SubFrom(re, repl, s, p) ==
    LET Step(m) ==
            IF ~m.found \/ m.end = m.start THEN Slice(s, p, Len(s))
            ELSE Slice(s, p, m.start) \o repl \o SubFrom(re, repl, s, m.end)
    IN  Step(SearchFrom(re, s, p))

ReSub(re, repl, s) == SubFrom(re, repl, s, 0)

\* re.sub(re, repl, s) where repl is the groups ks of the match, one after
\* the other (r'\1\2' is << 1, 2 >>), for a pattern that matches no empty
\* text
RECURSIVE SubGroupsFrom(_, _, _, _)
SubGroupsFrom(re, ks, s, p) ==
    LET Step(m) ==
            IF ~m.found \/ m.end = m.start THEN Slice(s, p, Len(s))
            ELSE Slice(s, p, m.start)
                 \o Join([k \in 1..Len(ks) |-> GroupOf(m, ks[k], s)], << >>)
                 \o SubGroupsFrom(re, ks, s, m.end)
    IN  Step(SearchFrom(re, s, p))

ReSubGroups(re, ks, s) == SubGroupsFrom(re, ks, s, 0)

\* re.split(re, s) for a pattern without groups that matches no empty text
RECURSIVE SplitPlainFrom(_, _, _)
SplitPlainFrom(re, s, p) ==
    LET Step(m) ==
            IF ~m.found \/ m.end = m.start THEN << Slice(s, p, Len(s)) >>
            ELSE << Slice(s, p, m.start) >> \o SplitPlainFrom(re, s, m.end)
    IN  Step(SearchFrom(re, s, p))

ReSplitPlain(re, s) == SplitPlainFrom(re, s, 0)

\* re.split(re, s) for a pattern with one group that matches no empty text:
\* the texts between the matches, each match's group between them
RECURSIVE SplitFrom(_, _, _)
SplitFrom(re, s, p) ==
    LET Step(m) ==
            IF ~m.found \/ m.end = m.start THEN << Slice(s, p, Len(s)) >>
            ELSE << Slice(s, p, m.start), GroupOf(m, 1, s) >>
                 \o SplitFrom(re, s, m.end)
    IN  Step(SearchFrom(re, s, p))

ReSplit(re, s) == SplitFrom(re, s, 0)

\* re.finditer(re, s): the matches, left to right, not overlapping
RECURSIVE FindAllFrom(_, _, _)
FindAllFrom(re, s, p) ==
    LET Step(m) ==
            IF ~m.found \/ m.end = m.start THEN << >>
            ELSE << m >> \o FindAllFrom(re, s, m.end)
    IN  Step(SearchFrom(re, s, p))

ReFindIter(re, s) == FindAllFrom(re, s, 0)


(***************************************************************************)
(* Reference (pdf_parser.py): one parsed entry.  Every text field starts   *)
(* empty.                                                                  *)
(***************************************************************************)
Reference(key, raw, chapter) ==
    [citation_key |-> key, raw_text |-> raw, title |-> << >>, year |-> << >>,
     authors |-> << >>, first_author |-> << >>, last_author |-> << >>,
     venue |-> << >>, chapter |-> chapter]

\* the literal texts of the source
ChapterWord == << "C", "h", "a", "p", "t", "e", "r" >>

UnknownChapter == << "U", "n", "k", "n", "o", "w", "n" >>

BibliographyWord ==
    << "B", "i", "b", "l", "i", "o", "g", "r", "a", "p", "h", "y" >>

SepMarker == << "|", "|", "|" >>

(***************************************************************************)
(* The year cascade of _parse_single_reference, one operator per stage.    *)
(* Each stage takes the Reference so far and gives it back, changed or not.*)
(***************************************************************************)

\* r"['']( \d{2,4})" without the space: both characters of the class are
\* the straight apostrophe U+0027
KeyYearRe == Cat(<< Cls({ "'" }), Grp(1, Rep(Cls(Digit), 2, 4)) >>)

\* r'\((\d{4})(?:[,\)])'
TextYearRe ==
    Cat(<< Lit(<< "(" >>), Grp(1, Rep(Cls(Digit), 4, 4)), Cls({ ",", ")" }) >>)

\* r',\s*(\d{4})\.?\s*$'
EndYearRe ==
    Cat(<< Lit(<< "," >>), Star(Cls(Space)), Grp(1, Rep(Cls(Digit), 4, 4)),
           Opt(Lit(<< "." >>)), Star(Cls(Space)), Eos >>)

\* r'\([A-Za-z]+\s+\d+,\s*(\d{4})\)'
DateYearRe ==
    Cat(<< Lit(<< "(" >>), Plus(Cls(Alpha)), Plus(Cls(Space)), Plus(Cls(Digit)),
           Lit(<< "," >>), Star(Cls(Space)), Grp(1, Rep(Cls(Digit), 4, 4)),
           Lit(<< ")" >>) >>)

\* the pivot of the two-digit years
YearPivot == 50

\* int() of a two-digit text
TwoDigitVal(yy) == 10 * DigitVal(yy[1]) + DigitVal(yy[2])

\* the century a two-digit year of the key gets
ExpandTwoDigitYear(yy) ==
    IF TwoDigitVal(yy) > YearPivot THEN << "1", "9" >> \o yy
    ELSE << "2", "0" >> \o yy

\* stage 1: the year of the citation key
YearFromKey(ref, key) ==
    LET Expanded(year) ==
            IF Len(year) = 2
            THEN [ref EXCEPT !.year = ExpandTwoDigitYear(year)]
            ELSE [ref EXCEPT !.year = year]
        Stage(year_match) ==
            IF year_match.found THEN Expanded(GroupOf(year_match, 1, key))
            ELSE ref
    IN  Stage(ReSearch(KeyYearRe, key))

\* YearFromPattern without "if not ref.year"
YearFromPatternUnguarded(ref, re, text) ==
    LET Stage(m) ==
            IF m.found THEN [ref EXCEPT !.year = GroupOf(m, 1, text)] ELSE ref
    IN  Stage(ReSearch(re, text))

\* a stage that reads the entry text: it acts only while year is empty
YearFromPattern(ref, re, text) ==
    IF ref.year = << >>
    THEN LET Stage(m) ==
                 IF m.found THEN [ref EXCEPT !.year = GroupOf(m, 1, text)]
                 ELSE ref
         IN  Stage(ReSearch(re, text))
    ELSE ref

\* stage 2: (YYYY) or (YYYY, in the text
YearFromText(ref, text) == YearFromPattern(ref, TextYearRe, text)

\* stage 3: ", YYYY" at the end of the text
YearFromEnd(ref, text) == YearFromPattern(ref, EndYearRe, text)

\* stage 4: (Month Day, YYYY)
YearFromDate(ref, text) == YearFromPattern(ref, DateYearRe, text)


(***************************************************************************)
(* The author list: _normalize_author_name,                                *)
(* _extract_authors_from_comma_separated, _parse_author_list and           *)
(* _extract_authors_smart.  An author list is a sequence of texts.         *)
(***************************************************************************)

\* s.split(sep) for a separator of several characters
RECURSIVE SplitStr(_, _)
SplitStr(s, sep) ==
    LET p == Find(s, sep)
    IN  IF p < 0 THEN << s >>
        ELSE << Slice(s, 0, p) >> \o SplitStr(Slice(s, p + Len(sep), Len(s)), sep)

\* re.match(re, s) is not None
Matches(re, s) == ReMatch(re, s).found

\* re.search(re, s) is not None
Found(re, s) == ReSearch(re, s).found

\* r'\s+'
SpacesRe == Plus(Cls(Space))

\* r'^[A-Z]'
CapitalStartRe == Cat(<< Bos, Cls(Upper) >>)

\* [A-Z]\.?
InitialRe == Cat(<< Cls(Upper), Opt(Lit(<< "." >>)) >>)

\* [A-Z][a-z]+
CapWordRe == Cat(<< Cls(Upper), Plus(Cls(Lower)) >>)

\* r'^([A-Z][a-z]+)\s+([A-Z]\.?\s*[A-Z]?\.?\s*[A-Z]?\.?)$'
LastInitialsRe ==
    Cat(<< Bos, Grp(1, CapWordRe), Plus(Cls(Space)),
           Grp(2, Cat(<< Cls(Upper), Opt(Lit(<< "." >>)), Star(Cls(Space)),
                         Opt(Cls(Upper)), Opt(Lit(<< "." >>)), Star(Cls(Space)),
                         Opt(Cls(Upper)), Opt(Lit(<< "." >>)) >>)),
           Eos >>)

NamePunct == { ".", ",", ";", ":" }

_normalize_author_name(name0) ==
    IF name0 = << >> THEN << >>
    ELSE
    LET \* "Last, First" of name, whose first comma is at position comma
        FirstLast(name, comma, last, first) ==
            IF first # << >> /\ last # << >>
            THEN IF Matches(CapitalStartRe, first)
                 THEN first \o << " " >> \o last
                 ELSE last
            ELSE last
        \* "Last F. M." of name
        InitialsLast(name, match) ==
            IF match.found
            THEN Strip(GroupOf(match, 2, name)) \o << " " >>
                 \o GroupOf(match, 1, name)
            ELSE name
        Reordered(name, comma) ==
            IF comma >= 0
            THEN FirstLast(name, comma, Strip(Slice(name, 0, comma)),
                           Strip(Slice(name, comma + 1, Len(name))))
            ELSE InitialsLast(name, ReMatch(LastInitialsRe, name))
        Spaced(name) == Reordered(name, Find(name, << "," >>))
    IN  StripChars(Spaced(ReSub(SpacesRe, << " " >>,
                                StripChars(Strip(name0), NamePunct))),
                   NamePunct \cup { " " })

\* r'^(?:[A-Z]\.?)+$'
InitialsRe == Cat(<< Bos, Plus(InitialRe), Eos >>)

\* r'^[A-Z][a-z]*\.?$'
FirstNameInitialRe ==
    Cat(<< Bos, Cls(Upper), Star(Cls(Lower)), Opt(Lit(<< "." >>)), Eos >>)

\* r'^[A-Z][a-z]+$'
SingleCapWordRe == Cat(<< Bos, CapWordRe, Eos >>)

\* r'^[A-Z][a-z]+ [A-Z][a-z]+$'
TwoCapWordsRe == Cat(<< Bos, CapWordRe, Lit(<< " " >>), CapWordRe, Eos >>)

\* r"^[A-Z]'[A-Z][a-z]+$"
ApostropheNameRe ==
    Cat(<< Bos, Cls(Upper), Lit(<< "'" >>), CapWordRe, Eos >>)

\* r'^[A-Z][a-z]+-[A-Z][a-z]+$'
HyphenNameRe == Cat(<< Bos, CapWordRe, Lit(<< "-" >>), CapWordRe, Eos >>)

\* r'^[A-Z][a-z]+\s+[A-Z][a-z]+'
FirstLastRe == Cat(<< Bos, CapWordRe, Plus(Cls(Space)), CapWordRe >>)

\* r'^[A-Z]\.?(\s*[A-Z]\.?)*$'
NextInitialsRe ==
    Cat(<< Bos, InitialRe, Star(Cat(<< Star(Cls(Space)), InitialRe >>)), Eos >>)

\* r'[A-Za-z]{2,}'
TwoLettersRe == Rep(Cls(Alpha), 2, Inf)

\* the three shapes of a part that holds initials or a short first name
is_initials(next_part) == Matches(InitialsRe, Replace(next_part, << " " >>, << >>))

is_short_first(next_part) ==
    /\ Len(next_part) > 0
    /\ Len(next_part) <= 3
    /\ isupper(next_part[1])
    /\ next_part[Len(next_part)] # "."

is_first_name_initial(next_part) ==
    Matches(FirstNameInitialRe, next_part) /\ Len(next_part) <= 10

looks_like_last_name(part) ==
    \/ Matches(SingleCapWordRe, part)
    \/ Matches(TwoCapWordsRe, part)
    \/ Matches(ApostropheNameRe, part)
    \/ Matches(HyphenNameRe, part)

\* the loop of _extract_authors_from_comma_separated from index i (0-based)
RECURSIVE CommaLoop(_, _)
CommaLoop(parts, i) ==
    IF i >= Len(parts) THEN << >>
    ELSE
    LET part == Strip(parts[i + 1])
        next_part == Strip(parts[i + 2])
    IN  IF part = << >> THEN CommaLoop(parts, i + 1)
        ELSE IF /\ i + 1 < Len(parts)
                /\ looks_like_last_name(part)
                /\ \/ is_initials(next_part)
                   \/ is_short_first(next_part)
                   \/ is_first_name_initial(next_part)
        THEN << part \o << ",", " " >> \o next_part >> \o CommaLoop(parts, i + 2)
        ELSE IF Matches(FirstLastRe, part)
        THEN << part >> \o CommaLoop(parts, i + 1)
        ELSE IF Matches(SingleCapWordRe, part) /\ Len(part) > 2
        THEN (IF i + 1 >= Len(parts) THEN << part >>
              ELSE IF ~Matches(NextInitialsRe, Strip(parts[i + 2])) THEN << part >>
              ELSE << >>)
             \o CommaLoop(parts, i + 1)
        ELSE (IF Found(TwoLettersRe, part) THEN << part >> ELSE << >>)
             \o CommaLoop(parts, i + 1)

_extract_authors_from_comma_separated(text) ==
    LET split == SplitChar(text, ",")
        parts == [k \in 1..Len(split) |-> Strip(split[k])]
    IN  CommaLoop(parts, 0)

\* r'\.\.\.\s*&' and r'\.{3}\s*&': the same pattern twice
EtAlRe == Cat(<< Lit(<< ".", ".", "." >>), Star(Cls(Space)), Lit(<< "&" >>) >>)

\* r'\s+&\s+'
AmpersandRe == Cat(<< Plus(Cls(Space)), Lit(<< "&" >>), Plus(Cls(Space)) >>)

\* r'\s+and\s+' under re.IGNORECASE
AndRe == Cat(<< Plus(Cls(Space)), LitI(<< "a", "n", "d" >>), Plus(Cls(Space)) >>)

\* r'^[\d\s.,]+$'
NotANameRe == Cat(<< Bos, Plus(Cls(Digit \cup Space \cup { ".", "," })), Eos >>)

\* the authors of every major part, in order
RECURSIVE ExtractEach(_)
ExtractEach(major_parts) ==
    IF Len(major_parts) = 0 THEN << >>
    ELSE LET part == Strip(Head(major_parts))
         IN  (IF part = << >> THEN << >>
              ELSE _extract_authors_from_comma_separated(part))
             \o ExtractEach(Tail(major_parts))

\* the clean-up loop of _parse_author_list
RECURSIVE CleanAuthors(_)
CleanAuthors(authors) ==
    IF Len(authors) = 0 THEN << >>
    ELSE LET Kept(author) ==
                 IF Len(author) > 1 /\ ~Matches(NotANameRe, author)
                 THEN << author >> ELSE << >>
         IN  Kept(_normalize_author_name(Head(authors)))
             \o CleanAuthors(Tail(authors))

\* the parts of authors_text between the separators ";", "&" and "and",
\* after the et-al markers are made commas
major_parts(authors_text) ==
    SplitStr(
      ReSub(AndRe, SepMarker,
        ReSub(AmpersandRe, SepMarker,
          Replace(
            ReSub(EtAlRe, << "," >>,
              ReSub(EtAlRe, << "," >>, authors_text)),
            << ";" >>, SepMarker))),
      SepMarker)

_parse_author_list(authors_text) ==
    IF authors_text = << >> THEN << >>
    ELSE CleanAuthors(ExtractEach(major_parts(authors_text)))

\* [^(]+ \s* \( (\d{4}) \), the tail the translator and editor patterns share
ByWhomTail ==
    << Plus(Cls(Space)), Lit(<< "b", "y" >>), Plus(Cls(Space)),
       Grp(1, Plus(NotCls({ "(" }))), Star(Cls(Space)),
       Lit(<< "(" >>), Grp(2, Rep(Cls(Digit), 4, 4)), Lit(<< ")" >>) >>

\* r'[Tt]ranslated\s+by\s+([^(]+)\s*\((\d{4})\)'
TranslatedByRe ==
    Cat(<< Cls({ "T", "t" }), Lit(<< "r", "a", "n", "s", "l", "a", "t", "e", "d" >>) >>
        \o ByWhomTail)

\* r'[Ee]dited\s+by\s+([^(]+)\s*\((\d{4})\)'
EditedByRe ==
    Cat(<< Cls({ "E", "e" }), Lit(<< "d", "i", "t", "e", "d" >>) >> \o ByWhomTail)

\* r'\((\d{4})\)'
ParenYearRe ==
    Cat(<< Lit(<< "(" >>), Grp(1, Rep(Cls(Digit), 4, 4)), Lit(<< ")" >>) >>)

\* r'^([^(]+?)(\d{4})'
BareYearRe ==
    Cat(<< Bos, Grp(1, RepLazy(NotCls({ "(" }), 1, Inf)),
           Grp(2, Rep(Cls(Digit), 4, 4)) >>)

\* text[:50]
AuthorPrefixLen == 50

\* the text the author list is read from when the entry names no translator
\* and no editor
AuthorsText(text) ==
    LET NoParenYear(bare_match, first_period) ==
            IF bare_match.found THEN GroupOf(bare_match, 1, text)
            ELSE IF first_period > 0 THEN Slice(text, 0, first_period)
            ELSE Slice(text, 0, Min(AuthorPrefixLen, Len(text)))
        BeforeYear(year_match) ==
            IF ~year_match.found
            THEN NoParenYear(ReSearch(BareYearRe, text), Find(text, << "." >>))
            ELSE Strip(Slice(text, 0, year_match.start))
    IN  RStripChars(RStripChars(Strip(BeforeYear(ReSearch(ParenYearRe, text))),
                                { "," }), { "." })

\* the text of the author list: the editor named by "Edited by", else the
\* text before the year
EditedAuthorsText(text, editor_match) ==
    IF editor_match.found THEN Strip(GroupOf(editor_match, 1, text))
    ELSE AuthorsText(text)

\* the translator named by "Translated by" alone, else the parsed author list
TranslatedAuthors(text, translation_match) ==
    IF translation_match.found
    THEN << _normalize_author_name(
                Strip(GroupOf(translation_match, 1, text))) >>
    ELSE _parse_author_list(
             EditedAuthorsText(text, ReSearch(EditedByRe, text)))

_extract_authors_smart(text, citation_key) ==
    TranslatedAuthors(text, ReSearch(TranslatedByRe, text))

\* AuthorsStep without the else branch of last_author
AuthorsStepNoSingle(ref, text, key) ==
    LET Stage(authors) ==
            IF Len(authors) > 0
            THEN [ref EXCEPT
                    !.authors = authors,
                    !.first_author = authors[1],
                    !.last_author = IF Len(authors) > 1 THEN authors[Len(authors)]
                                    ELSE << >>]
            ELSE [ref EXCEPT !.authors = authors]
    IN  Stage(_extract_authors_smart(text, key))

\* first_author and last_author from authors
AuthorsStep(ref, text, key) ==
    LET Stage(authors) ==
            IF Len(authors) > 0
            THEN [ref EXCEPT
                    !.authors = authors,
                    !.first_author = authors[1],
                    !.last_author = IF Len(authors) > 1 THEN authors[Len(authors)]
                                    ELSE authors[1]]
            ELSE [ref EXCEPT !.authors = authors]
    IN  Stage(_extract_authors_smart(text, key))


(***************************************************************************)
(* The title: _extract_title, _extract_title_from_text,                    *)
(* _extract_title_fallback and _clean_title, and their patterns.           *)
(***************************************************************************)
\* comma_journal_patterns, as re.IGNORECASE reads them
comma_journal_patterns ==
    \* r',\s*Journal\s+of'
    << Cat(<< Lit(<< "," >>), Star(Cls(Space)), LitI(<< "J", "o", "u", "r",
           "n", "a", "l" >>), Plus(Cls(Space)), LitI(<< "o", "f" >>) >>),
       \* r',\s*Annals\s+of'
       Cat(<< Lit(<< "," >>), Star(Cls(Space)), LitI(<< "A", "n", "n", "a",
           "l", "s" >>), Plus(Cls(Space)), LitI(<< "o", "f" >>) >>),
       \* r',\s*Transactions\s+on'
       Cat(<< Lit(<< "," >>), Star(Cls(Space)), LitI(<< "T", "r", "a", "n",
           "s", "a", "c", "t", "i", "o", "n", "s" >>), Plus(Cls(Space)),
           LitI(<< "o", "n" >>) >>),
       \* r',\s*Proceedings\s+of'
       Cat(<< Lit(<< "," >>), Star(Cls(Space)), LitI(<< "P", "r", "o", "c",
           "e", "e", "d", "i", "n", "g", "s" >>), Plus(Cls(Space)), LitI(<<
           "o", "f" >>) >>),
       \* r',\s*IEEE\s+'
       Cat(<< Lit(<< "," >>), Star(Cls(Space)), LitI(<< "I", "E", "E", "E"
           >>), Plus(Cls(Space)) >>),
       \* r',\s*ACM\s+'
       Cat(<< Lit(<< "," >>), Star(Cls(Space)), LitI(<< "A", "C", "M" >>),
           Plus(Cls(Space)) >>),
       \* r',\s*Journal\s+fu-umlautr'
       Cat(<< Lit(<< "," >>), Star(Cls(Space)), LitI(<< "J", "o", "u", "r",
           "n", "a", "l" >>), Plus(Cls(Space)), LitI(<< "f", "U+00FC", "r"
           >>) >>) >>

\* r'\.\s+'
PeriodSpacesRe ==
    Cat(<< Lit(<< "." >>), Plus(Cls(Space)) >>)

\* journal_patterns, as re.IGNORECASE reads them
journal_patterns ==
    \* r'^(?:Annals|Journal|Proceedings|IEEE|ACM|SIAM|The\s+[A-Z]|[A-Z][a-z]+\s+Journal)'
    << Cat(<< Bos, Alt(<< LitI(<< "A", "n", "n", "a", "l", "s" >>), LitI(<<
           "J", "o", "u", "r", "n", "a", "l" >>), LitI(<< "P", "r", "o", "c",
           "e", "e", "d", "i", "n", "g", "s" >>), LitI(<< "I", "E", "E", "E"
           >>), LitI(<< "A", "C", "M" >>), LitI(<< "S", "I", "A", "M" >>),
           Cat(<< LitI(<< "T", "h", "e" >>), Plus(Cls(Space)), ClsI(Upper)
           >>), Cat(<< ClsI(Upper), Plus(ClsI(Lower)), Plus(Cls(Space)),
           LitI(<< "J", "o", "u", "r", "n", "a", "l" >>) >>) >>) >>),
       \* r'^(?:Transactions|Communications|Reviews?|Bulletin|Archives?)'
       Cat(<< Bos, Alt(<< LitI(<< "T", "r", "a", "n", "s", "a", "c", "t",
           "i", "o", "n", "s" >>), LitI(<< "C", "o", "m", "m", "u", "n", "i",
           "c", "a", "t", "i", "o", "n", "s" >>), Cat(<< LitI(<< "R", "e",
           "v", "i", "e", "w" >>), Opt(LitI(<< "s" >>)) >>), LitI(<< "B",
           "u", "l", "l", "e", "t", "i", "n" >>), Cat(<< LitI(<< "A", "r",
           "c", "h", "i", "v", "e" >>), Opt(LitI(<< "s" >>)) >>) >>) >>),
       \* r'^\d+\s*[\(:]'
       Cat(<< Bos, Plus(Cls(Digit)), Star(Cls(Space)), Cls({ "(", ":" }) >>) >>

\* venue_markers, as re.IGNORECASE reads them
venue_markers ==
    \* r'(?:In\s+)?Proceedings'
    << Cat(<< Opt(Cat(<< LitI(<< "I", "n" >>), Plus(Cls(Space)) >>)), LitI(<<
           "P", "r", "o", "c", "e", "e", "d", "i", "n", "g", "s" >>) >>),
       \* r'(?:In\s+)?Conference'
       Cat(<< Opt(Cat(<< LitI(<< "I", "n" >>), Plus(Cls(Space)) >>)), LitI(<<
           "C", "o", "n", "f", "e", "r", "e", "n", "c", "e" >>) >>),
       \* r'(?:In\s+)?Workshop'
       Cat(<< Opt(Cat(<< LitI(<< "I", "n" >>), Plus(Cls(Space)) >>)), LitI(<<
           "W", "o", "r", "k", "s", "h", "o", "p" >>) >>),
       \* r'(?:In\s+)?Advances\s+in'
       Cat(<< Opt(Cat(<< LitI(<< "I", "n" >>), Plus(Cls(Space)) >>)), LitI(<<
           "A", "d", "v", "a", "n", "c", "e", "s" >>), Plus(Cls(Space)),
           LitI(<< "i", "n" >>) >>),
       \* r'(?:In\s+)?International'
       Cat(<< Opt(Cat(<< LitI(<< "I", "n" >>), Plus(Cls(Space)) >>)), LitI(<<
           "I", "n", "t", "e", "r", "n", "a", "t", "i", "o", "n", "a", "l"
           >>) >>),
       \* r'(?:In\s+)?(?:\d{4}\s+)?IEEE'
       Cat(<< Opt(Cat(<< LitI(<< "I", "n" >>), Plus(Cls(Space)) >>)),
           Opt(Cat(<< Rep(Cls(Digit), 4, 4), Plus(Cls(Space)) >>)), LitI(<<
           "I", "E", "E", "E" >>) >>),
       \* r'(?:In\s+)?ACM'
       Cat(<< Opt(Cat(<< LitI(<< "I", "n" >>), Plus(Cls(Space)) >>)), LitI(<<
           "A", "C", "M" >>) >>),
       \* r'(?:In\s+)?SIAM'
       Cat(<< Opt(Cat(<< LitI(<< "I", "n" >>), Plus(Cls(Space)) >>)), LitI(<<
           "S", "I", "A", "M" >>) >>),
       \* r'(?:In\s+)?NIPS'
       Cat(<< Opt(Cat(<< LitI(<< "I", "n" >>), Plus(Cls(Space)) >>)), LitI(<<
           "N", "I", "P", "S" >>) >>),
       \* r'(?:In\s+)?NeurIPS'
       Cat(<< Opt(Cat(<< LitI(<< "I", "n" >>), Plus(Cls(Space)) >>)), LitI(<<
           "N", "e", "u", "r", "I", "P", "S" >>) >>),
       \* r'(?:In\s+)?ICML'
       Cat(<< Opt(Cat(<< LitI(<< "I", "n" >>), Plus(Cls(Space)) >>)), LitI(<<
           "I", "C", "M", "L" >>) >>),
       \* r'(?:In\s+)?ICLR'
       Cat(<< Opt(Cat(<< LitI(<< "I", "n" >>), Plus(Cls(Space)) >>)), LitI(<<
           "I", "C", "L", "R" >>) >>),
       \* r'(?:In\s+)?CVPR'
       Cat(<< Opt(Cat(<< LitI(<< "I", "n" >>), Plus(Cls(Space)) >>)), LitI(<<
           "C", "V", "P", "R" >>) >>),
       \* r'(?:In\s+)?ICCV'
       Cat(<< Opt(Cat(<< LitI(<< "I", "n" >>), Plus(Cls(Space)) >>)), LitI(<<
           "I", "C", "C", "V" >>) >>),
       \* r'(?:In\s+)?ECCV'
       Cat(<< Opt(Cat(<< LitI(<< "I", "n" >>), Plus(Cls(Space)) >>)), LitI(<<
           "E", "C", "C", "V" >>) >>),
       \* r'(?:In\s+)?AAAI'
       Cat(<< Opt(Cat(<< LitI(<< "I", "n" >>), Plus(Cls(Space)) >>)), LitI(<<
           "A", "A", "A", "I" >>) >>),
       \* r'(?:In\s+)?IJCAI'
       Cat(<< Opt(Cat(<< LitI(<< "I", "n" >>), Plus(Cls(Space)) >>)), LitI(<<
           "I", "J", "C", "A", "I" >>) >>),
       \* r'(?:In\s+)?KDD'
       Cat(<< Opt(Cat(<< LitI(<< "I", "n" >>), Plus(Cls(Space)) >>)), LitI(<<
           "K", "D", "D" >>) >>),
       \* r'(?:In\s+)?WWW\s+\d'
       Cat(<< Opt(Cat(<< LitI(<< "I", "n" >>), Plus(Cls(Space)) >>)), LitI(<<
           "W", "W", "W" >>), Plus(Cls(Space)), Cls(Digit) >>),
       \* r'(?:In\s+)?SIGMOD'
       Cat(<< Opt(Cat(<< LitI(<< "I", "n" >>), Plus(Cls(Space)) >>)), LitI(<<
           "S", "I", "G", "M", "O", "D" >>) >>),
       \* r'(?:In\s+)?VLDB'
       Cat(<< Opt(Cat(<< LitI(<< "I", "n" >>), Plus(Cls(Space)) >>)), LitI(<<
           "V", "L", "D", "B" >>) >>),
       \* r'(?:In\s+)?(?:The\s+)?(?:\w+\s+)+Symposium'
       Cat(<< Opt(Cat(<< LitI(<< "I", "n" >>), Plus(Cls(Space)) >>)),
           Opt(Cat(<< LitI(<< "T", "h", "e" >>), Plus(Cls(Space)) >>)),
           Plus(Cat(<< Plus(WordChar), Plus(Cls(Space)) >>)), LitI(<< "S",
           "y", "m", "p", "o", "s", "i", "u", "m" >>) >>),
       \* r'(?:In\s+)?The\s+(?:\w+\s+)+(?:for|on)\s+'
       Cat(<< Opt(Cat(<< LitI(<< "I", "n" >>), Plus(Cls(Space)) >>)), LitI(<<
           "T", "h", "e" >>), Plus(Cls(Space)), Plus(Cat(<< Plus(WordChar),
           Plus(Cls(Space)) >>)), Alt(<< LitI(<< "f", "o", "r" >>), LitI(<<
           "o", "n" >>) >>), Plus(Cls(Space)) >>),
       \* r'In\s+[A-Z][a-z]+\s+(?:and|&)\s+'
       Cat(<< LitI(<< "I", "n" >>), Plus(Cls(Space)), ClsI(Upper),
           Plus(ClsI(Lower)), Plus(Cls(Space)), Alt(<< LitI(<< "a", "n", "d"
           >>), Lit(<< "&" >>) >>), Plus(Cls(Space)) >>),
       \* r'In\s+[A-Z][a-z]+\s+[A-Z][a-z]+(?:\s|:)'
       Cat(<< LitI(<< "I", "n" >>), Plus(Cls(Space)), ClsI(Upper),
           Plus(ClsI(Lower)), Plus(Cls(Space)), ClsI(Upper),
           Plus(ClsI(Lower)), Cls(Space \cup { ":" }) >>),
       \* r'In\s+[A-Z][a-z]+\s+Algebra'
       Cat(<< LitI(<< "I", "n" >>), Plus(Cls(Space)), ClsI(Upper),
           Plus(ClsI(Lower)), Plus(Cls(Space)), LitI(<< "A", "l", "g", "e",
           "b", "r", "a" >>) >>),
       \* r'\"\s*In\s+'
       Cat(<< Lit(<< "\"" >>), Star(Cls(Space)), LitI(<< "I", "n" >>),
           Plus(Cls(Space)) >>),
       \* r'arXiv'
       LitI(<< "a", "r", "X", "i", "v" >>),
       \* r'Nature\b'
       Cat(<< LitI(<< "N", "a", "t", "u", "r", "e" >>), Wb >>),
       \* r'Science\b'
       Cat(<< LitI(<< "S", "c", "i", "e", "n", "c", "e" >>), Wb >>),
       \* r'PNAS'
       LitI(<< "P", "N", "A", "S" >>),
       \* r'PLoS'
       LitI(<< "P", "L", "o", "S" >>),
       \* r'JMLR'
       LitI(<< "J", "M", "L", "R" >>),
       \* r'Journal\s+of'
       Cat(<< LitI(<< "J", "o", "u", "r", "n", "a", "l" >>),
           Plus(Cls(Space)), LitI(<< "o", "f" >>) >>),
       \* r'Annals\s+of'
       Cat(<< LitI(<< "A", "n", "n", "a", "l", "s" >>), Plus(Cls(Space)),
           LitI(<< "o", "f" >>) >>),
       \* r'Transactions\s+on'
       Cat(<< LitI(<< "T", "r", "a", "n", "s", "a", "c", "t", "i", "o", "n",
           "s" >>), Plus(Cls(Space)), LitI(<< "o", "n" >>) >>),
       \* r'Communications\s+of'
       Cat(<< LitI(<< "C", "o", "m", "m", "u", "n", "i", "c", "a", "t", "i",
           "o", "n", "s" >>), Plus(Cls(Space)), LitI(<< "o", "f" >>) >>),
       \* r'Proceedings\s+of'
       Cat(<< LitI(<< "P", "r", "o", "c", "e", "e", "d", "i", "n", "g", "s"
           >>), Plus(Cls(Space)), LitI(<< "o", "f" >>) >>),
       \* r'Reviews?\s+of'
       Cat(<< LitI(<< "R", "e", "v", "i", "e", "w" >>), Opt(LitI(<< "s" >>)),
           Plus(Cls(Space)), LitI(<< "o", "f" >>) >>),
       \* r'Bulletin\s+of'
       Cat(<< LitI(<< "B", "u", "l", "l", "e", "t", "i", "n" >>),
           Plus(Cls(Space)), LitI(<< "o", "f" >>) >>),
       \* r'Archives?\s+of'
       Cat(<< LitI(<< "A", "r", "c", "h", "i", "v", "e" >>), Opt(LitI(<< "s"
           >>)), Plus(Cls(Space)), LitI(<< "o", "f" >>) >>),
       \* r'Reports?\s+of'
       Cat(<< LitI(<< "R", "e", "p", "o", "r", "t" >>), Opt(LitI(<< "s" >>)),
           Plus(Cls(Space)), LitI(<< "o", "f" >>) >>),
       \* r'The\s+[A-Z][a-z]+\s+Journal'
       Cat(<< LitI(<< "T", "h", "e" >>), Plus(Cls(Space)), ClsI(Upper),
           Plus(ClsI(Lower)), Plus(Cls(Space)), LitI(<< "J", "o", "u", "r",
           "n", "a", "l" >>) >>),
       \* r'[A-Z][a-z]+\s+Journal'
       Cat(<< ClsI(Upper), Plus(ClsI(Lower)), Plus(Cls(Space)), LitI(<< "J",
           "o", "u", "r", "n", "a", "l" >>) >>),
       \* r'British\s+'
       Cat(<< LitI(<< "B", "r", "i", "t", "i", "s", "h" >>), Plus(Cls(Space))
           >>),
       \* r'American\s+'
       Cat(<< LitI(<< "A", "m", "e", "r", "i", "c", "a", "n" >>),
           Plus(Cls(Space)) >>),
       \* r'European\s+'
       Cat(<< LitI(<< "E", "u", "r", "o", "p", "e", "a", "n" >>),
           Plus(Cls(Space)) >>),
       \* r'International\s+Journal'
       Cat(<< LitI(<< "I", "n", "t", "e", "r", "n", "a", "t", "i", "o", "n",
           "a", "l" >>), Plus(Cls(Space)), LitI(<< "J", "o", "u", "r", "n",
           "a", "l" >>) >>),
       \* r'Biometrika'
       LitI(<< "B", "i", "o", "m", "e", "t", "r", "i", "k", "a" >>),
       \* r'Psycholog'
       LitI(<< "P", "s", "y", "c", "h", "o", "l", "o", "g" >>),
       \* r'Statistical'
       LitI(<< "S", "t", "a", "t", "i", "s", "t", "i", "c", "a", "l" >>),
       \* r'Springer'
       LitI(<< "S", "p", "r", "i", "n", "g", "e", "r" >>),
       \* r'Cambridge'
       LitI(<< "C", "a", "m", "b", "r", "i", "d", "g", "e" >>),
       \* r'Oxford'
       LitI(<< "O", "x", "f", "o", "r", "d" >>),
       \* r'MIT\s+[Pp]ress'
       Cat(<< LitI(<< "M", "I", "T" >>), Plus(Cls(Space)), ClsI({ "P", "p"
           }), LitI(<< "r", "e", "s", "s" >>) >>),
       \* r'O'Reilly'
       LitI(<< "O", "'", "R", "e", "i", "l", "l", "y" >>),
       \* r'Wiley'
       LitI(<< "W", "i", "l", "e", "y" >>),
       \* r'Elsevier'
       LitI(<< "E", "l", "s", "e", "v", "i", "e", "r" >>),
       \* r'McGraw'
       LitI(<< "M", "c", "G", "r", "a", "w" >>),
       \* r'Prentice'
       LitI(<< "P", "r", "e", "n", "t", "i", "c", "e" >>),
       \* r'Academic\s+Press'
       Cat(<< LitI(<< "A", "c", "a", "d", "e", "m", "i", "c" >>),
           Plus(Cls(Space)), LitI(<< "P", "r", "e", "s", "s" >>) >>),
       \* r'Morgan\s+Kaufmann'
       Cat(<< LitI(<< "M", "o", "r", "g", "a", "n" >>), Plus(Cls(Space)),
           LitI(<< "K", "a", "u", "f", "m", "a", "n", "n" >>) >>),
       \* r'Addison.Wesley'
       Cat(<< LitI(<< "A", "d", "d", "i", "s", "o", "n" >>), Dot, LitI(<<
           "W", "e", "s", "l", "e", "y" >>) >>),
       \* r'CRC\s+[Pp]ress'
       Cat(<< LitI(<< "C", "R", "C" >>), Plus(Cls(Space)), ClsI({ "P", "p"
           }), LitI(<< "r", "e", "s", "s" >>) >>),
       \* r'Pearson'
       LitI(<< "P", "e", "a", "r", "s", "o", "n" >>),
       \* r'Hachette'
       LitI(<< "H", "a", "c", "h", "e", "t", "t", "e" >>),
       \* r'Manning'
       LitI(<< "M", "a", "n", "n", "i", "n", "g" >>),
       \* r'Packt'
       LitI(<< "P", "a", "c", "k", "t" >>),
       \* r'Graphics\s+[Pp]ress'
       Cat(<< LitI(<< "G", "r", "a", "p", "h", "i", "c", "s" >>),
           Plus(Cls(Space)), ClsI({ "P", "p" }), LitI(<< "r", "e", "s", "s"
           >>) >>),
       \* r'(?:New\s+York|Boston|London|Berlin|San\s+Francisco|Cambridge,?\s+MA|Redmond|Cheshire)'
       Alt(<< Cat(<< LitI(<< "N", "e", "w" >>), Plus(Cls(Space)), LitI(<<
           "Y", "o", "r", "k" >>) >>), LitI(<< "B", "o", "s", "t", "o", "n"
           >>), LitI(<< "L", "o", "n", "d", "o", "n" >>), LitI(<< "B", "e",
           "r", "l", "i", "n" >>), Cat(<< LitI(<< "S", "a", "n" >>),
           Plus(Cls(Space)), LitI(<< "F", "r", "a", "n", "c", "i", "s", "c",
           "o" >>) >>), Cat(<< LitI(<< "C", "a", "m", "b", "r", "i", "d",
           "g", "e" >>), Opt(Lit(<< "," >>)), Plus(Cls(Space)), LitI(<< "M",
           "A" >>) >>), LitI(<< "R", "e", "d", "m", "o", "n", "d" >>),
           LitI(<< "C", "h", "e", "s", "h", "i", "r", "e" >>) >>),
       \* r'Ph\.?D\.?\s+[Tt]hesis'
       Cat(<< LitI(<< "P", "h" >>), Opt(Lit(<< "." >>)), LitI(<< "D" >>),
           Opt(Lit(<< "." >>)), Plus(Cls(Space)), ClsI({ "T", "t" }), LitI(<<
           "h", "e", "s", "i", "s" >>) >>),
       \* r'Master'?s?\s+[Tt]hesis'
       Cat(<< LitI(<< "M", "a", "s", "t", "e", "r" >>), Opt(Lit(<< "'" >>)),
           Opt(LitI(<< "s" >>)), Plus(Cls(Space)), ClsI({ "T", "t" }),
           LitI(<< "h", "e", "s", "i", "s" >>) >>),
       \* r'Technical\s+[Rr]eport'
       Cat(<< LitI(<< "T", "e", "c", "h", "n", "i", "c", "a", "l" >>),
           Plus(Cls(Space)), ClsI({ "R", "r" }), LitI(<< "e", "p", "o", "r",
           "t" >>) >>),
       \* r'Working\s+[Pp]aper'
       Cat(<< LitI(<< "W", "o", "r", "k", "i", "n", "g" >>),
           Plus(Cls(Space)), ClsI({ "P", "p" }), LitI(<< "a", "p", "e", "r"
           >>) >>),
       \* r'Paper\s+[A-Z]?\-?\d'
       Cat(<< LitI(<< "P", "a", "p", "e", "r" >>), Plus(Cls(Space)),
           Opt(ClsI(Upper)), Opt(Lit(<< "-" >>)), Cls(Digit) >>),
       \* r'Chapter\s+\d'
       Cat(<< LitI(<< "C", "h", "a", "p", "t", "e", "r" >>),
           Plus(Cls(Space)), Cls(Digit) >>),
       \* r'pp\.\s*\d'
       Cat(<< LitI(<< "p", "p", "." >>), Star(Cls(Space)), Cls(Digit) >>),
       \* r'\d+\s*\(\d+\)'
       Cat(<< Plus(Cls(Digit)), Star(Cls(Space)), Lit(<< "(" >>),
           Plus(Cls(Digit)), Lit(<< ")" >>) >>),
       \* r'Vol\.\s*\d'
       Cat(<< LitI(<< "V", "o", "l", "." >>), Star(Cls(Space)), Cls(Digit)
           >>),
       \* r'Volume\s+\d'
       Cat(<< LitI(<< "V", "o", "l", "u", "m", "e" >>), Plus(Cls(Space)),
           Cls(Digit) >>),
       \* r'[Ee]dited\s+by'
       Cat(<< ClsI({ "E", "e" }), LitI(<< "d", "i", "t", "e", "d" >>),
           Plus(Cls(Space)), LitI(<< "b", "y" >>) >>),
       \* r'[Ee]ditor'
       Cat(<< ClsI({ "E", "e" }), LitI(<< "d", "i", "t", "o", "r" >>) >>),
       \* r'Series\s+[A-Z]'
       Cat(<< LitI(<< "S", "e", "r", "i", "e", "s" >>), Plus(Cls(Space)),
           ClsI(Upper) >>),
       \* r'Part\s+[A-Z\d]'
       Cat(<< LitI(<< "P", "a", "r", "t" >>), Plus(Cls(Space)), ClsI(Upper
           \cup Digit) >>),
       \* r'\d+:\s*\d+'
       Cat(<< Plus(Cls(Digit)), Lit(<< ":" >>), Star(Cls(Space)),
           Plus(Cls(Digit)) >>) >>

\* r'\.\s*(?:' + '|'.join(venue_markers) + ')'
venue_pattern ==
    Cat(<< Lit(<< "." >>), Star(Cls(Space)), Alt(venue_markers) >>)

\* r'\.\s+([A-Z][a-z]+(?:\s+[a-z]+)*)\.\s+[A-Z]'
section_pattern ==
    Cat(<< Lit(<< "." >>), Plus(Cls(Space)), Grp(1, Cat(<< Cls(Upper),
        Plus(Cls(Lower)), Star(Cat(<< Plus(Cls(Space)), Plus(Cls(Lower)) >>))
        >>)), Lit(<< "." >>), Plus(Cls(Space)), Cls(Upper) >>)

\* r'\.\s*(?:[A-Z][a-z]+,\s*[A-Z]{2}|[A-Z][a-z]+:\s*[A-Z])'
location_pattern ==
    Cat(<< Lit(<< "." >>), Star(Cls(Space)), Cls(Upper), Alt(<< Cat(<<
        Plus(Cls(Lower)), Lit(<< "," >>), Star(Cls(Space)), Rep(Cls(Upper),
        2, 2) >>), Cat(<< Plus(Cls(Lower)), Lit(<< ":" >>), Star(Cls(Space)),
        Cls(Upper) >>) >>) >>)

\* r'(?<!\d)\.\s+\d+\s*[\(:]'
vol_pattern ==
    Cat(<< Nlb(Cls(Digit), 1), Lit(<< "." >>), Plus(Cls(Space)),
        Plus(Cls(Digit)), Star(Cls(Space)), Cls({ "(", ":" }) >>)

\* r'(?<![A-Z])(?<!\s[A-Z])(?<!vs)(?<!etc)(?<!al)(?<!No)\.\s+[A-Z]'
sentence_end ==
    Cat(<< Nlb(Cls(Upper), 1), Nlb(Cat(<< Cls(Space), Cls(Upper) >>), 2),
        Nlb(Lit(<< "v", "s" >>), 2), Nlb(Lit(<< "e", "t", "c" >>), 3),
        Nlb(Lit(<< "a", "l" >>), 2), Nlb(Lit(<< "N", "o" >>), 2), Lit(<< "."
        >>), Plus(Cls(Space)), Cls(Upper) >>)

\* r'and\s+[A-Z][a-z]+,\s+[A-Z][a-z]+(?:\s+[A-Z]\.?)?\.\s+'
full_name_author_end ==
    Cat(<< Lit(<< "a", "n", "d" >>), Plus(Cls(Space)), Cls(Upper),
        Plus(Cls(Lower)), Lit(<< "," >>), Plus(Cls(Space)), Cls(Upper),
        Plus(Cls(Lower)), Opt(Cat(<< Plus(Cls(Space)), Cls(Upper), Opt(Lit(<<
        "." >>)) >>)), Lit(<< "." >>), Plus(Cls(Space)) >>)

\* r'^([A-Z][a-z]+,\s*[A-Z]\.(?:\s*[A-Z]\.)*)\s+'
simple_author ==
    Cat(<< Bos, Grp(1, Cat(<< Cls(Upper), Plus(Cls(Lower)), Lit(<< "," >>),
        Star(Cls(Space)), Cls(Upper), Lit(<< "." >>), Star(Cat(<<
        Star(Cls(Space)), Cls(Upper), Lit(<< "." >>) >>)) >>)),
        Plus(Cls(Space)) >>)

\* r'"([^"]+)"'
quote_match ==
    Cat(<< Lit(<< "\"" >>), Grp(1, Plus(NotCls({ "\"" }))), Lit(<< "\"" >>)
        >>)

\* r'^[IVXLC]+\.\s*'
ArticleNumberRe ==
    Cat(<< Bos, Plus(Cls({ "I", "V", "X", "L", "C" })), Lit(<< "." >>),
        Star(Cls(Space)) >>)

\* r'\s*\((?:Vol|No|pp|Chapter)\.?\s*$' under re.IGNORECASE
OpenVolumeRe ==
    Cat(<< Star(Cls(Space)), Lit(<< "(" >>), Alt(<< LitI(<< "V", "o", "l"
        >>), LitI(<< "N", "o" >>), LitI(<< "p", "p" >>), LitI(<< "C", "h",
        "a", "p", "t", "e", "r" >>) >>), Opt(Lit(<< "." >>)),
        Star(Cls(Space)), Eos >>)

\* r'\s*\(\d+(?:st|nd|rd|th)?\s*$' under re.IGNORECASE
OpenEditionRe ==
    Cat(<< Star(Cls(Space)), Lit(<< "(" >>), Plus(Cls(Digit)), Opt(Alt(<<
        LitI(<< "s", "t" >>), LitI(<< "n", "d" >>), LitI(<< "r", "d" >>),
        LitI(<< "t", "h" >>) >>)), Star(Cls(Space)), Eos >>)

\* r'^(?:Vol|No|pp|ed|Chapter|\d+)\.?\s*$' under re.IGNORECASE
ParenContentRe ==
    Cat(<< Bos, Alt(<< LitI(<< "V", "o", "l" >>), LitI(<< "N", "o" >>),
        LitI(<< "p", "p" >>), LitI(<< "e", "d" >>), LitI(<< "C", "h", "a",
        "p", "t", "e", "r" >>), Plus(Cls(Digit)) >>), Opt(Lit(<< "." >>)),
        Star(Cls(Space)), Eos >>)

\* r'(\w)-\s+(\w)'
HyphenBreakRe ==
    Cat(<< Grp(1, WordChar), Lit(<< "-" >>), Plus(Cls(Space)), Grp(2,
        WordChar) >>)

\* r'[Tt]ranslated\s+by\s+[^(]+\((\d{4})\)'
TranslationClauseRe ==
    Cat(<< Cls({ "T", "t" }), Lit(<< "r", "a", "n", "s", "l", "a", "t", "e",
        "d" >>), Plus(Cls(Space)), Lit(<< "b", "y" >>), Plus(Cls(Space)),
        Plus(NotCls({ "(" })), Lit(<< "(" >>), Grp(1, Rep(Cls(Digit), 4, 4)),
        Lit(<< ")" >>) >>)

\* r'\((?:[A-Za-z]+\s+\d+,\s*)?(\d{4})(?:,\s*[A-Za-z]+)?\)[.,]?\s*'
TitleYearRe ==
    Cat(<< Lit(<< "(" >>), Opt(Cat(<< Plus(Cls(Upper \cup Lower)),
        Plus(Cls(Space)), Plus(Cls(Digit)), Lit(<< "," >>), Star(Cls(Space))
        >>)), Grp(1, Rep(Cls(Digit), 4, 4)), Opt(Cat(<< Lit(<< "," >>),
        Star(Cls(Space)), Plus(Cls(Upper \cup Lower)) >>)), Lit(<< ")" >>),
        Opt(Cls({ ".", "," })), Star(Cls(Space)) >>)

\* r'^[,.\s]+'
LeadingPunctRe ==
    Cat(<< Bos, Plus(Cls(Space \cup { ",", "." })) >>)

\* len(s.split()): the number of words of s
WordCount(s) ==
    Cardinality({ p \in 1..Len(s) :
                    s[p] \notin Space /\ (p = 1 \/ s[p - 1] \in Space) })

\* the place in res of the first of the patterns that re.search finds in s,
\* 0 if it finds none
FirstFound(res, s) ==
    LET hits == { k \in 1..Len(res) : Found(res[k], s) }
    IN  IF hits = {} THEN 0 ELSE CHOOSE k \in hits : \A j \in hits : k <= j

\* s.rfind(sub)
RFind(s, sub) ==
    LET hits == { p \in 0..Len(s) : StartsAt(s, sub, p) }
    IN  IF hits = {} THEN -1 ELSE CHOOSE p \in hits : \A q \in hits : p >= q

\* s.lower(): the lowercase of every character, which for U+0130 is two
\* characters
LowerText(s) == Join([k \in 1..Len(s) |-> LowerAt(s, k)], << >>)

\* the characters title.strip('.,;:') removes
TitlePunct == { ".", ",", ";", ":" }

_clean_title(title0) ==
    LET Unclosed(title) ==
            IF Contains(title, << "(" >>) /\ ~Contains(title, << ")" >>)
               /\ Matches(ParenContentRe,
                          Slice(title, RFind(title, << "(" >>) + 1, Len(title)))
            THEN Strip(Slice(title, 0, RFind(title, << "(" >>)))
            ELSE title
    IN  IF title0 = << >> THEN << >>
        ELSE ReSubGroups(HyphenBreakRe, << 1, 2 >>,
               StripChars(
                 Strip(
                   Unclosed(
                     ReSub(OpenEditionRe, << >>,
                       ReSub(OpenVolumeRe, << >>,
                         StripChars(
                           ReSub(ArticleNumberRe, << >>,
                             ReSub(SpacesRe, << " " >>,
                               StripChars(Strip(title0), TitlePunct))),
                           { "\"", "'" }))))),
                 TitlePunct))

\* text[:m.start()].strip(): the title is what stands before the match
TitleBefore(text, m) == Strip(Slice(text, 0, m.start))

\* The stages of _extract_title_from_text, last first: each takes what the
\* search of its pattern found and, when that gives no title, goes on to the
\* next stage.
FromFirstPeriod(text, period_pos) ==
    IF period_pos > 0 THEN Strip(Slice(text, 0, period_pos)) ELSE Strip(text)

FromSentenceEnd(text, m) ==
    IF m.found THEN TitleBefore(text, m)
    ELSE FromFirstPeriod(text, Find(text, << "." >>))

FromVolume(text, m) ==
    IF m.found THEN TitleBefore(text, m)
    ELSE FromSentenceEnd(text, ReSearch(sentence_end, text))

FromLocation(text, m) ==
    IF m.found THEN TitleBefore(text, m)
    ELSE FromVolume(text, ReSearch(vol_pattern, text))

FromSection(text, m) ==
    IF m.found /\ WordCount(GroupOf(m, 1, text)) <= 4
    THEN TitleBefore(text, m)
    ELSE FromLocation(text, ReSearch(location_pattern, text))

FromVenue(text, m) ==
    IF m.found THEN TitleBefore(text, m)
    ELSE FromSection(text, ReSearch(section_pattern, text))

FromShortSecond(text, parts) ==
    IF /\ Len(parts) >= 3
       /\ parts[2] # << >>
       /\ WordCount(parts[2]) <= 4
       /\ \E k \in 1..Len(journal_patterns) :
             Matches(journal_patterns[k], parts[3])
    THEN Strip(parts[1])
    ELSE FromVenue(text, ReSearch(venue_pattern, text))

FromCommaJournal(text, k) ==
    IF k > 0 THEN TitleBefore(text, ReSearch(comma_journal_patterns[k], text))
    ELSE FromShortSecond(text, ReSplitPlain(PeriodSpacesRe, text))

_extract_title_from_text(text) ==
    FromCommaJournal(text, FirstFound(comma_journal_patterns, text))

\* quote_match.group(1), or "" when there is no quoted text
QuotedTitle(text, m) == IF m.found THEN GroupOf(m, 1, text) ELSE << >>

\* Where the title text starts for _extract_title_fallback: after the last
\* author of the full-name format, else after the author of the simple
\* format, else two characters after the first ". "; -1 when none applies.
after_author(full_name, simple, first_period) ==
    IF full_name.found THEN full_name.end
    ELSE IF simple.found THEN simple.end
    ELSE IF first_period > 0 THEN first_period + 2
    ELSE -1

\* the three branches of the source end in the same call on text[start:]
FallbackFrom(text, start) ==
    IF start >= 0 THEN _extract_title_from_text(Slice(text, start, Len(text)))
    ELSE QuotedTitle(text, ReSearch(quote_match, text))

_extract_title_fallback(text) ==
    FallbackFrom(text,
                 after_author(ReSearch(full_name_author_end, text),
                              ReMatch(simple_author, text),
                              Find(text, << ".", " " >>)))

\* text[first_period + 1:translated_pos].strip().rstrip('.')
TranslatedTitle(text, first_period, translated_pos) ==
    RStripChars(Strip(Slice(text, first_period + 1, translated_pos)), { "." })

\* the title of the translation format, "" when the format does not apply
FromTranslation(text, first_period, translated_pos) ==
    IF /\ Found(TranslationClauseRe, text)
       /\ first_period > 0
       /\ translated_pos > first_period
    THEN TranslatedTitle(text, first_period, translated_pos)
    ELSE << >>

\* the title found after the parenthesised year, "" when there is no such
\* year
FromYear(text, year_match) ==
    IF year_match.found
    THEN _extract_title_from_text(
             ReSub(LeadingPunctRe, << >>,
                   Slice(text, year_match.end, Len(text))))
    ELSE << >>

\* Each branch of the source returns self._clean_title(title) for the first
\* non-empty title; _clean_title("") is "", the value of the last return.
TitleAfterYear(text, title) ==
    IF title # << >> THEN title ELSE _extract_title_fallback(text)

TitleAfterTranslation(text, title) ==
    IF title # << >> THEN title
    ELSE TitleAfterYear(text, FromYear(text, ReSearch(TitleYearRe, text)))

_extract_title(text) ==
    _clean_title(
      TitleAfterTranslation(text,
        FromTranslation(text, Find(text, << "." >>),
                        Find(LowerText(text),
                             << "t", "r", "a", "n", "s", "l", "a", "t", "e",
                                "d", " ", "b", "y" >>))))

\* ref.title = self._extract_title(text)
TitleStep(ref, text) == [ref EXCEPT !.title = _extract_title(text)]


(***************************************************************************)
(* _parse_single_reference: the stages in the order of the source.  None   *)
(* stands for Python's None.                                               *)
(***************************************************************************)
None == [none |-> TRUE]

_parse_single_reference(key, text, chapter) ==
    LET Return(ref) == IF ref.raw_text # << >> THEN ref ELSE None
    IN  Return(
          TitleStep(
            AuthorsStep(
              YearFromDate(
                YearFromEnd(
                  YearFromText(
                    YearFromKey(Reference(key, Strip(text), chapter), key),
                    text),
                  text),
                text),
              text, key),
            text))


(***************************************************************************)
(* pdf_extractor.py: the text normaliser remove_chapter_markers and the    *)
(* flattened-span segmenter split_into_references.                         *)
(***************************************************************************)

\* r'[<em dash>\-]{3,}.*?Chapter\s+\d+.*?[<em dash>\-]{3,}'
ChapterMarkerRe ==
    Cat(<< Rep(Cls(Dashes), 3, Inf), RepLazy(Dot, 0, Inf), Lit(ChapterWord),
           Plus(Cls(Space)), Plus(Cls(Digit)), RepLazy(Dot, 0, Inf),
           Rep(Cls(Dashes), 3, Inf) >>)

\* r'\n[<em dash>\-]{4,}\n'
StandaloneDashesRe ==
    Cat(<< Lit(<< "\n" >>), Rep(Cls(Dashes), 4, Inf), Lit(<< "\n" >>) >>)

remove_chapter_markers(text) ==
    ReSub(StandaloneDashesRe, << "\n" >>, ReSub(ChapterMarkerRe, << >>, text))

\* the apostrophes of the reference marker: ' U+2018 U+2019
MarkerApostrophes == { "'", "U+2018", "U+2019" }

\* r'\[[^\]]+[\'\u2018\u2019]\d{2,4}(?:\s+[A-Z])?\]'
ReferenceMarkerRe ==
    Cat(<< Lit(<< "[" >>), Plus(NotCls({ "]" })), Cls(MarkerApostrophes),
           Rep(Cls(Digit), 2, 4),
           Opt(Cat(<< Plus(Cls(Space)), Cls(Upper) >>)), Lit(<< "]" >>) >>)

\* the references between the markers: from each marker to the next one, or
\* to the end of the text
SpansOf(text, matches) ==
    [k \in 1..Len(matches) |->
        Strip(Slice(text, matches[k].start,
                    IF k + 1 <= Len(matches) THEN matches[k + 1].start
                    ELSE Len(text)))]

split_into_references(text0) ==
    LET Spans(text) == SpansOf(text, ReFindIter(ReferenceMarkerRe, text))
    IN  Spans(Replace(remove_chapter_markers(text0), << "\n" >>, << " " >>))


(***************************************************************************)
(* The documents the model reads.  A document is up to MaxLines lines,     *)
(* each one of LineKinds, joined by line breaks.                           *)
(***************************************************************************)
MaxLines == 3

MaxCalls == 2

Banner(n) ==
    << EmDash, EmDash, EmDash, EmDash >> \o ChapterWord \o << " " >> \o n
    \o << EmDash, EmDash, EmDash, EmDash >>

LineKinds ==
    << << "[", "A", "'", "5", "0", "]", " ", "x" >>,
       << "[", "B", "]" >>,
       << "y" >>,
       << >>,
       Banner(<< "1" >>),
       BibliographyWord,
       << "[", "A", "'", "5", "0", "]", " ", "x", " ",
          "[", "C", "'", "5", "1", "]", " ", "z" >>,
       << " ", "[", "C", "'", "5", "1", "]" >>,
       Banner(<< "2" >>) >>

DocOf(kinds) == Join([k \in 1..Len(kinds) |-> LineKinds[kinds[k]]], << "\n" >>)

Docs ==
    { DocOf(kinds) :
        kinds \in UNION { [1..n -> 1..Len(LineKinds)] : n \in 0..MaxLines } }

\* the file at pdf_path: one whose pages give a text, or one neither
\* pdfplumber nor pypdf can read
Readable(text) == [readable |-> TRUE, text |-> text]

Unreadable == [readable |-> FALSE, text |-> << >>]

Files == { Readable(d) : d \in Docs } \cup { Unreadable }

\* entries with authors, for the lookup loop of the pipeline: two authors,
\* the second author alone, the first author alone, and no author
AuthoredLines ==
    << << "[", "A", "'", "5", "0", "]", " ", "S", "m", "i", "t", "h", ",",
          " ", "J", ".", ",", " ", "D", "o", "e", ",", " ", "A", ".", " ",
          "(", "1", "9", "8", "7", ")", ".", " ", "T", "." >>,
       << "[", "C", "'", "5", "1", "]", " ", "D", "o", "e", ",", " ", "A",
          ".", " ", "(", "1", "9", "8", "8", ")", ".", " ", "T", "." >>,
       << "[", "D", "'", "5", "2", "]", " ", "S", "m", "i", "t", "h", ",",
          " ", "J", ".", " ", "(", "1", "9", "8", "9", ")", ".", " ", "T",
          "." >>,
       << "[", "A", "'", "5", "0", "]", " ", "x" >> >>

AuthoredDocs ==
    { Join([k \in 1..Len(kinds) |-> AuthoredLines[kinds[k]]], << "\n" >>) :
        kinds \in UNION { [1..n -> 1..Len(AuthoredLines)] : n \in 1..MaxLines } }

\* the files the pipeline is run on
MainFiles == Files \cup { Readable(d) : d \in AuthoredDocs }

(***************************************************************************)
(* The entries the model parses.  A key is a name, an apostrophe, digits   *)
(* and a tail; a text is an author part, a year part and an end part.      *)
(***************************************************************************)
\* the names of the keys
KeyNames ==
    << << "A", " " >>,
       << "O", "'", "B", " " >> >>

\* the apostrophes of the keys: the straight one, U+2018 and U+2019
KeyApostrophes == << "'", "U+2018", "U+2019" >>

\* the digits after the apostrophe
KeyDigits ==
    << << "5", "0" >>,
       << "5", "1" >>,
       << "0", "0" >>,
       << "9", "9" >>,
       << "1", "2", "3" >>,
       << "1", "9", "9", "9" >>,
       << >> >>

\* what follows the digits
KeyTails ==
    << << >>,
       << " ", "A" >> >>

EntryKeys ==
    { KeyNames[n] \o << KeyApostrophes[a] >> \o KeyDigits[d] \o KeyTails[e] :
        n \in DOMAIN KeyNames, a \in DOMAIN KeyApostrophes,
        d \in DOMAIN KeyDigits, e \in DOMAIN KeyTails }

\* the author parts
AuthorParts ==
    << << >>,
       << "S", "m", "i", "t", "h", ",", " ", "J", "." >>,
       << "S", "m", "i", "t", "h", ",", " ", "J", ".", ",", " ", "&", " ",
          "D", "o", "e", ",", " ", "A", "." >>,
       << "E", "d", "i", "t", "e", "d", " ", "b", "y", " ", "A", ".", " ",
          "D", "o", "e", " ", "a", "n", "d", " ", "J", ".", " ", "S", "m",
          "i", "t", "h" >> >>

\* the year parts
YearParts ==
    << << >>,
       << " ", "(", "1", "9", "8", "7", ")", "." >>,
       << " ", "(", "1", "9", "8", "7", ",", " ", "M", "a", "y", ")", "." >>,
       << " ", "(", "M", "a", "y", " ", "5", ",", " ", "1", "9", "8", "9",
          ")", "." >> >>

\* the end parts
EndParts ==
    << << >>,
       << " ", "T", "." >>,
       << " ", "T", ",", " ", "1", "9", "8", "8", "." >> >>

EntryTexts ==
    { AuthorParts[a] \o YearParts[y] \o EndParts[e] :
        a \in DOMAIN AuthorParts, y \in DOMAIN YearParts,
        e \in DOMAIN EndParts }

(***************************************************************************)
(* The entries the documentation works through, entries in the             *)
(* translation format with different texts before and after the clause,    *)
(* entries with an et-al marker in each of its spellings, entries without  *)
(* a name where one is expected, and entries with a tab in the initials.   *)
(***************************************************************************)
\* the key and the text of the entry [Van der Maaten '08]
VanDerMaatenKey ==
    << "V", "a", "n", " ", "d", "e", "r", " ", "M", "a", "a", "t", "e", "n",
       " ", "'", "0", "8" >>

\* Van der Maaten, L.J.P.; Hinton, G.E. (2008). Visualizing Data Using t-SNE. ...
VanDerMaatenText ==
    << "V", "a", "n", " ", "d", "e", "r", " ", "M", "a", "a", "t", "e", "n",
       ",", " ", "L", ".", "J", ".", "P", ".", ";", " ", "H", "i", "n", "t",
       "o", "n", ",", " ", "G", ".", "E", ".", " ", "(", "2", "0", "0", "8",
       ")", ".", " ", "V", "i", "s", "u", "a", "l", "i", "z", "i", "n", "g",
       " ", "D", "a", "t", "a", " ", "U", "s", "i", "n", "g", " ", "t", "-",
       "S", "N", "E", ".", " ", "J", "o", "u", "r", "n", "a", "l", " ", "o",
       "f", " ", "M", "a", "c", "h", "i", "n", "e", " ", "L", "e", "a", "r",
       "n", "i", "n", "g", " ", "R", "e", "s", "e", "a", "r", "c", "h", ".",
       " ", "9", ":", " ", "2", "5", "7", "9", "-", "2", "6", "0", "5",
       "." >>

\* the key of the entry [Chen '20 A], the authors and the year its text begins
\* with, and a title to follow them
ChenKey ==
    << "C", "h", "e", "n", " ", "'", "2", "0", " ", "A" >>

\* Chen, T., Kornblith, S., Norouzi, M., & Hinton, G. (2020).
ChenAuthorsYear ==
    << "C", "h", "e", "n", ",", " ", "T", ".", ",", " ", "K", "o", "r", "n",
       "b", "l", "i", "t", "h", ",", " ", "S", ".", ",", " ", "N", "o", "r",
       "o", "u", "z", "i", ",", " ", "M", ".", ",", " ", "&", " ", "H", "i",
       "n", "t", "o", "n", ",", " ", "G", ".", " ", "(", "2", "0", "2", "0",
       ")", "." >>

\* the title text that follows
ChenTitle ==
    << " ", "A", " ", "s", "i", "m", "p", "l", "e", " ", "f", "r", "a", "m",
       "e", "w", "o", "r", "k", ".", " ", "I", "C", "M", "L", "." >>

\* the key and the text of the entry [Wiener '48]
WienerKey ==
    << "W", "i", "e", "n", "e", "r", " ", "'", "4", "8" >>

\* N. Wiener (1948). Time, communication, and the nervous system. ...
WienerText ==
    << "N", ".", " ", "W", "i", "e", "n", "e", "r", " ", "(", "1", "9", "4",
       "8", ")", ".", " ", "T", "i", "m", "e", ",", " ", "c", "o", "m", "m",
       "u", "n", "i", "c", "a", "t", "i", "o", "n", ",", " ", "a", "n", "d",
       " ", "t", "h", "e", " ", "n", "e", "r", "v", "o", "u", "s", " ", "s",
       "y", "s", "t", "e", "m", ".", " ", "T", "e", "l", "e", "o", "l", "o",
       "g", "i", "c", "a", "l", " ", "m", "e", "c", "h", "a", "n", "i", "s",
       "m", "s", ".", " ", "A", "n", "n", "a", "l", "s", " ", "o", "f", " ",
       "t", "h", "e", " ", "N", ".", "Y", ".", " ", "A", "c", "a", "d", ".",
       " ", "S", "c", "i", ".", " ", "5", "0", " ", "(", "4", ")", ":", " ",
       "1", "9", "7", "-", "2", "1", "9", "." >>

\* the key of a translation entry
HillKey ==
    << "H", "i", "l", "l", " ", "'", "7", "9" >>

\* the translation clause
TranslationClause ==
    << "T", "r", "a", "n", "s", "l", "a", "t", "e", "d", " ", "b", "y", " ",
       "D", ".", " ", "R", ".", " ", "H", "i", "l", "l", " ", "(", "1", "9",
       "7", "9", ")" >>

\* what stands before the translation clause
TranslationLeads ==
    << << >>,
       << "B", "a", "n", "u", " ", "M", "u", "s", "a", ".", " ", "T", "h",
          "e", " ", "B", "o", "o", "k", " ", "o", "f", " ", "I", "n", "g",
          "e", "n", "i", "o", "u", "s", " ", "D", "e", "v", "i", "c", "e",
          "s", ".", " " >>,
       << "M", "u", "s", "a", " ", "(", "1", "8", "5", "0", ")", " ", "T",
          "h", "e", " ", "B", "o", "o", "k", " " >>,
       << "B", ".", " " >> >>

\* what stands after it
TranslationEnds ==
    << << >>,
       << ".", " ", "S", "p", "r", "i", "n", "g", "e", "r", "." >> >>

TranslationTexts ==
    { TranslationLeads[a] \o TranslationClause \o TranslationEnds[e] :
        a \in DOMAIN TranslationLeads, e \in DOMAIN TranslationEnds }

\* the spellings of the et-al marker: three dots or the ellipsis U+2026,
\* with and without a space before the ampersand
EtAlMarkers ==
    << << ".", ".", ".", " ", "&" >>,
       << ".", ".", ".", "&" >>,
       << "U+2026", " ", "&" >>,
       << "U+2026", "&" >> >>

\* what stands before the marker
EtAlLeads ==
    << << "S", "m", "i", "t", "h", ",", " ", "J", ".", ",", " " >>,
       << "S", "m", "i", "t", "h", ",", " ", "J", ".", " " >> >>

\* what stands after it
EtAlEnd ==
    << " ", "D", "o", "e", ",", " ", "A", ".", " ", "(", "1", "9", "8", "7",
       ")", ".", " ", "T", "." >>

EtAlKey == << "A", " ", "'", "5", "0" >>

EtAlTexts ==
    { EtAlLeads[a] \o EtAlMarkers[m] \o EtAlEnd :
        a \in DOMAIN EtAlLeads, m \in DOMAIN EtAlMarkers }

\* entries that name digits or nothing where a translator, an editor or an
\* author is expected
NamelessTexts ==
    { << "T", ".", " ", "T", "r", "a", "n", "s", "l", "a", "t", "e", "d",
         " ", "b", "y", " ", "1", "2", " ", "(", "1", "9", "7", "9", ")" >>,
      << "T", ".", " ", "T", "r", "a", "n", "s", "l", "a", "t", "e", "d",
         " ", "b", "y", " ", " ", "(", "1", "9", "7", "9", ")" >>,
      << "T", ".", " ", "E", "d", "i", "t", "e", "d", " ", "b", "y", " ",
         "1", "2", " ", "(", "1", "9", "7", "9", ")" >>,
      << "1", "2", ",", " ", "3", "4", ".", " ", "(", "1", "9", "8", "7",
         ")", ".", " ", "T", "." >> }

\* entries whose first author has a tab between the initials
TabbedTexts ==
    { << "S", "m", "i", "t", "h", ",", " ", "J", ".", "\t", "K", ".", " ",
         "(", "1", "9", "8", "7", ")", ".", " ", "T", "." >>,
      << "S", "m", "i", "t", "h", ",", " ", "J", ".", "\t", "K", ".", ",",
         " ", "D", "o", "e", ",", " ", "A", ".", " ", "(", "1", "9", "8",
         "7", ")", ".", " ", "T", "." >> }

\* the (key, text) pairs of these entries
DocumentedEntries ==
    { << VanDerMaatenKey, VanDerMaatenText >>,
      << ChenKey, ChenAuthorsYear >>,
      << ChenKey, ChenAuthorsYear \o ChenTitle >>,
      << WienerKey, WienerText >> }
    \cup { << HillKey, text >> : text \in TranslationTexts }
    \cup { << EtAlKey, text >> : text \in EtAlTexts }
    \cup { << HillKey, text >> : text \in NamelessTexts }
    \cup { << EtAlKey, text >> : text \in TabbedTexts }


(***************************************************************************)
(* The texts the normaliser is applied to: up to MaxNormParts parts.       *)
(***************************************************************************)
MaxNormParts == 5

\* a line break, a run of dashes, the words of a banner, other text
NormParts ==
    << << "\n" >>,
       << "-", "-", "-", "-" >>,
       << "C", "h", "a", "p", "t", "e", "r", " ", "1" >>,
       << "x" >> >>

NormTextOf(parts) == Join([k \in 1..Len(parts) |-> NormParts[parts[k]]], << >>)

NormTexts ==
    { NormTextOf(parts) :
        parts \in UNION { [1..n -> DOMAIN NormParts] : n \in 0..MaxNormParts } }


(***************************************************************************)
(* PDFReferenceParser and one caller of it.                                *)
(*   pdf_file         the file at pdf_path, one of Files                   *)
(*   raw_text, references   the fields of the parser                       *)
(*   pc               "ready": no call is running; "chunks": at the head   *)
(*                    of the loop over chapters; "lines": at the head of   *)
(*                    the loop over lines; "raised": a call raised         *)
(*   chapters, i, current_chapter, lines, ln, current_key,                 *)
(*   current_ref_text the locals of parse_references (ln counts the lines  *)
(*                    from 1)                                              *)
(*   results          what each call of parse_references returned: every   *)
(*                    call returns the list self.references itself, so     *)
(*                    each element is that list as it is now               *)
(*   calls            how many calls of parse_references have begun        *)
(*   call_text        raw_text when the running or last call began         *)
(*   call_read        whether that call asked for the text of the file     *)
(*   call_base        len(references) when that call began                 *)
(*   chunk_base       len(references) when the running or last chunk began *)
(*                                                                         *)
(* One call of _parse_single_reference, stage by stage.                    *)
(*   entry_key, entry_text   its arguments key and text                    *)
(*   entry_ref        its local ref (None before it is made)               *)
(*   entry_pc         the stage the call is at                             *)
(*   entry_ret        what the call returned                               *)
(*                                                                         *)
(* remove_chapter_markers applied to a text and to its own result.         *)
(*   norm_in          the text                                             *)
(*   norm_once, norm_twice   the results of the first and second pass      *)
(*   norm_pc          how many passes have run                             *)
(*                                                                         *)
(* One call of process_references (src/main.py).                           *)
(*   verbose, max_refs   its arguments (max_refs 0 stands for None)        *)
(*   main_pc          the step the call is at; "raised": it raised         *)
(*   main_refs        its local references                                 *)
(*   main_i           how many references the lookup loop has done         *)
(*   author_cache, first_author_info, last_author_info   its dicts         *)
(*   output_file      the rows of the file at output_path, None before it  *)
(*                    is written                                           *)
(*   reported         the reference counts printed so far                  *)
(*   main_ret         what the call returned, None before it returns       *)
(*   main_exc         the call that raised, None while none did            *)
(*   lookup_calls     the names lookup_author was called with, in order    *)
(*                                                                         *)
(* The web interface (src/web_interface.py).                               *)
(*   jobs             the module-level dict jobs: job id -> job dict       *)
(*   job_pc           for each job id, the statement its process_job       *)
(*                    thread is at ("none": no thread)                     *)
(*   response         for each job id, the reply to the /status request   *)
(*                    of the page, on its way to the page (None: none)     *)
(*   client           for each job id, what the page shows for it          *)
(*   download_link    for each job id, the href showSuccess built          *)
(*   upload_reply     the reply of the last /upload request that replied,  *)
(*                    None when the last one raised                        *)
(*   upload_exc       the call that made the last /upload request raise,   *)
(*                    None when it replied                                 *)
(*   upload_pc        for each job id, where the /upload request that made *)
(*                    it is: "none": no request; "start_thread": the job   *)
(*                    is in jobs; "reply": its thread is started;          *)
(*                    "replied": the reply is on its way to the page;      *)
(*                    "done": the page has it                              *)
(***************************************************************************)
VARIABLES pdf_file, raw_text, references, pc, chapters, i, current_chapter,
          lines, ln, current_key, current_ref_text, results, calls,
          call_text, call_read, call_base, chunk_base,
          entry_key, entry_text, entry_ref, entry_pc, entry_ret,
          norm_in, norm_once, norm_twice, norm_pc,
          verbose, max_refs, main_pc, main_refs, main_i, author_cache,
          first_author_info, last_author_info, output_file, reported,
          main_ret, main_exc, lookup_calls,
          jobs, job_pc, response, client, download_link, upload_reply,
          upload_exc, upload_pc

parserVars == << pdf_file, raw_text, references, pc, chapters, i,
                 current_chapter, lines, ln, current_key, current_ref_text,
                 results, calls, call_text, call_read, call_base, chunk_base >>

entryVars == << entry_key, entry_text, entry_ref, entry_pc, entry_ret >>

normVars == << norm_in, norm_once, norm_twice, norm_pc >>

mainVars == << verbose, max_refs, main_pc, main_refs, main_i, author_cache,
               first_author_info, last_author_info, output_file, reported,
               main_ret, main_exc, lookup_calls >>

webVars ==
    << jobs, job_pc, response, client, download_link, upload_reply,
       upload_exc, upload_pc >>

vars == << parserVars, entryVars, normVars, mainVars, webVars >>

\* r'<4 em dashes>\s*Chapter\s*(\d+)\s*<4 em dashes>'
ChapterRe ==
    Cat(<< Lit(<< EmDash, EmDash, EmDash, EmDash >>), Star(Cls(Space)),
           Lit(ChapterWord), Star(Cls(Space)), Grp(1, Plus(Cls(Digit))),
           Star(Cls(Space)), Lit(<< EmDash, EmDash, EmDash, EmDash >>) >>)

\* r'^\[([^\]]+)\]'
KeyLineRe ==
    Cat(<< Bos, Lit(<< "[" >>), Grp(1, Plus(NotCls({ "]" }))), Lit(<< "]" >>) >>)

\* __init__
ParserInitOn(files) ==
    /\ pdf_file \in files
    /\ raw_text = << >>
    /\ references = << >>
    /\ pc = "ready"
    /\ chapters = << >>
    /\ i = 0
    /\ current_chapter = UnknownChapter
    /\ lines = << >>
    /\ ln = 1
    /\ current_key = << >>
    /\ current_ref_text = << >>
    /\ results = << >>
    /\ calls = 0
    /\ call_text = << >>
    /\ call_read = FALSE
    /\ call_base = 0
    /\ chunk_base = 0

ParserInit == ParserInitOn(Files)

\* extract_text, called by the caller: both readers fail on an unreadable
\* file and the second one's exception leaves the method
ExtractText ==
    /\ pc = "ready"
    /\ IF ~pdf_file.readable
       THEN pc' = "raised" /\ UNCHANGED raw_text
       ELSE raw_text' = pdf_file.text /\ UNCHANGED pc
    /\ UNCHANGED << pdf_file, references, chapters, i, current_chapter,
                    lines, ln, current_key, current_ref_text, results, calls,
                    call_text, call_read, call_base, chunk_base, entryVars, normVars, webVars,
                    mainVars >>

\* parse_references up to the head of the loop over chapters
ParseStart ==
    /\ pc = "ready"
    /\ calls < MaxCalls
    /\ calls' = calls + 1
    /\ call_text' = raw_text
    /\ call_read' = (raw_text = << >>)
    /\ call_base' = Len(references)
    /\ IF raw_text = << >> /\ ~pdf_file.readable
       THEN /\ pc' = "raised"
            /\ UNCHANGED << raw_text, chapters, i, current_chapter >>
       ELSE LET text == IF raw_text = << >> THEN pdf_file.text ELSE raw_text
            IN  /\ raw_text' = text
                /\ chapters' = ReSplit(ChapterRe, text)
                /\ i' = 0
                /\ current_chapter' = UnknownChapter
                /\ pc' = "chunks"
    /\ UNCHANGED << pdf_file, references, lines, ln, current_key,
                    current_ref_text, results, chunk_base, entryVars,
                    normVars, webVars, mainVars >>

\* the chunk the loop over chapters is at
Chunk == chapters[i + 1]

\* an odd index: a chapter number
ChapterNumber ==
    /\ pc = "chunks"
    /\ i < Len(chapters)
    /\ i % 2 = 1
    /\ current_chapter' = ChapterWord \o << " " >> \o Chunk
    /\ i' = i + 1
    /\ UNCHANGED << pdf_file, raw_text, references, pc, chapters, lines, ln,
                    current_key, current_ref_text, results, calls, call_text,
                    call_read, call_base, chunk_base, entryVars, normVars, webVars, mainVars >>

\* IsPreamble when no chunk is taken for the preamble
IsPreambleNever == FALSE

\* i == 0 and "Bibliography" in chunk
IsPreamble == i = 0 /\ Contains(Chunk, BibliographyWord)

SkipBibliography ==
    /\ pc = "chunks"
    /\ i < Len(chapters)
    /\ i % 2 = 0
    /\ IsPreamble
    /\ i' = i + 1
    /\ UNCHANGED << pdf_file, raw_text, references, pc, chapters,
                    current_chapter, lines, ln, current_key,
                    current_ref_text, results, calls, call_text, call_read, call_base,
                    chunk_base, entryVars, normVars, webVars, mainVars >>

\* ChunkStart when the entry of the chunk before is kept
ChunkStartKeepsEntry ==
    /\ pc = "chunks"
    /\ i < Len(chapters)
    /\ i % 2 = 0
    /\ ~IsPreamble
    /\ lines' = SplitChar(Strip(Chunk), "\n")
    /\ ln' = 1
    /\ chunk_base' = Len(references)
    /\ pc' = "lines"
    /\ UNCHANGED << pdf_file, raw_text, references, chapters, i,
                    current_chapter, current_ref_text, current_key, results,
                    calls, call_text, call_read, call_base, entryVars, normVars, webVars,
                    mainVars >>

\* a content chunk: its lines
ChunkStart ==
    /\ pc = "chunks"
    /\ i < Len(chapters)
    /\ i % 2 = 0
    /\ ~IsPreamble
    /\ lines' = SplitChar(Strip(Chunk), "\n")
    /\ ln' = 1
    /\ current_ref_text' = << >>
    /\ current_key' = << >>
    /\ chunk_base' = Len(references)
    /\ pc' = "lines"
    /\ UNCHANGED << pdf_file, raw_text, references, chapters, i,
                    current_chapter, results, calls, call_text, call_read, call_base,
                    entryVars, normVars, webVars, mainVars >>

\* Line without strip()
LineUntrimmed == lines[ln]

\* the line the loop over lines is at, stripped
Line == Strip(lines[ln])

\* what "save the previous reference" and "the last reference" make of
\* references
Flushed ==
    IF current_key # << >> /\ current_ref_text # << >>
    THEN LET Saved(ref) ==
                 IF ref # None THEN Append(references, ref) ELSE references
         IN  Saved(_parse_single_reference(
                       current_key, Join(current_ref_text, << " " >>),
                       current_chapter))
    ELSE references

\* the list self.references as n returned values show it
Aliased(n, refs) == [k \in 1..n |-> refs]

BlankLine ==
    /\ pc = "lines"
    /\ ln <= Len(lines)
    /\ Line = << >>
    /\ ln' = ln + 1
    /\ UNCHANGED << pdf_file, raw_text, references, pc, chapters, i,
                    current_chapter, lines, current_key, current_ref_text,
                    results, calls, call_text, call_read, call_base, chunk_base,
                    entryVars, normVars, webVars, mainVars >>

\* a line that starts with a citation key
KeyLine ==
    /\ pc = "lines"
    /\ ln <= Len(lines)
    /\ Line # << >>
    /\ LET key_match == ReMatch(KeyLineRe, Line)
           remaining == Strip(Slice(Line, key_match.end, Len(Line)))
       IN  /\ key_match.found
           /\ references' = Flushed
           /\ results' = Aliased(Len(results), references')
           /\ current_key' = GroupOf(key_match, 1, Line)
           /\ current_ref_text' =
                 IF remaining # << >> THEN << remaining >> ELSE << >>
    /\ ln' = ln + 1
    /\ UNCHANGED << pdf_file, raw_text, pc, chapters, i, current_chapter,
                    lines, calls, call_text, call_read, call_base, chunk_base,
                    entryVars, normVars, webVars, mainVars >>

\* TextLine without "current_ref_text.append(line)"
TextLineDropped ==
    /\ pc = "lines"
    /\ ln <= Len(lines)
    /\ Line # << >>
    /\ ~Matches(KeyLineRe, Line)
    /\ ln' = ln + 1
    /\ UNCHANGED << pdf_file, raw_text, references, pc, chapters, i,
                    current_chapter, lines, current_key, current_ref_text,
                    results, calls, call_text, call_read, call_base, chunk_base,
                    entryVars, normVars, webVars, mainVars >>

\* any other line: it continues the current reference, if there is one
TextLine ==
    /\ pc = "lines"
    /\ ln <= Len(lines)
    /\ Line # << >>
    /\ ~Matches(KeyLineRe, Line)
    /\ current_ref_text' =
          IF current_key # << >> THEN Append(current_ref_text, Line)
          ELSE current_ref_text
    /\ ln' = ln + 1
    /\ UNCHANGED << pdf_file, raw_text, references, pc, chapters, i,
                    current_chapter, lines, current_key, results, calls,
                    call_text, call_read, call_base, chunk_base, entryVars, normVars, webVars,
                    mainVars >>

\* ChunkEnd without "the last reference"
ChunkEndNoFlush ==
    /\ pc = "lines"
    /\ ln > Len(lines)
    /\ i' = i + 1
    /\ pc' = "chunks"
    /\ UNCHANGED << pdf_file, raw_text, references, chapters, current_chapter,
                    lines, ln, current_key, current_ref_text, results, calls,
                    call_text, call_read, call_base, chunk_base, entryVars, normVars, webVars,
                    mainVars >>

\* after the last line of a chunk
ChunkEnd ==
    /\ pc = "lines"
    /\ ln > Len(lines)
    /\ references' = Flushed
    /\ results' = Aliased(Len(results), references')
    /\ i' = i + 1
    /\ pc' = "chunks"
    /\ UNCHANGED << pdf_file, raw_text, chapters, current_chapter, lines, ln,
                    current_key, current_ref_text, calls, call_text,
                    call_read, call_base, chunk_base, entryVars, normVars, webVars, mainVars >>

\* return self.references
ParseReturn ==
    /\ pc = "chunks"
    /\ i >= Len(chapters)
    /\ results' = Aliased(Len(results) + 1, references)
    /\ pc' = "ready"
    /\ UNCHANGED << pdf_file, raw_text, references, chapters, i,
                    current_chapter, lines, ln, current_key,
                    current_ref_text, calls, call_text, call_read, call_base,
                    chunk_base, entryVars, normVars, webVars, mainVars >>

\* the steps of one call of parse_references
ParseSteps ==
    \/ ParseStart
    \/ ChapterNumber
    \/ SkipBibliography
    \/ ChunkStart
    \/ BlankLine
    \/ KeyLine
    \/ TextLine
    \/ ChunkEnd
    \/ ParseReturn

ParserNext ==
    \/ ExtractText
    \/ ParseSteps

\* the parser's variables while no parser is in use
ParserIdle ==
    /\ pdf_file = Unreadable
    /\ raw_text = << >>
    /\ references = << >>
    /\ pc = "idle"
    /\ chapters = << >>
    /\ i = 0
    /\ current_chapter = UnknownChapter
    /\ lines = << >>
    /\ ln = 1
    /\ current_key = << >>
    /\ current_ref_text = << >>
    /\ results = << >>
    /\ calls = 0
    /\ call_text = << >>
    /\ call_read = FALSE
    /\ call_base = 0
    /\ chunk_base = 0

(***************************************************************************)
(* _parse_single_reference, one action per stage.                          *)
(***************************************************************************)
EntryInit ==
    /\ \/ entry_key \in EntryKeys /\ entry_text \in EntryTexts
       \/ \E e \in DocumentedEntries : entry_key = e[1] /\ entry_text = e[2]
    /\ entry_ref = None
    /\ entry_pc = "new"
    /\ entry_ret = None

EntryIdle ==
    /\ entry_key = << >>
    /\ entry_text = << >>
    /\ entry_ref = None
    /\ entry_pc = "idle"
    /\ entry_ret = None

\* ref = Reference(citation_key=key, raw_text=text.strip(), chapter=chapter)
NewReference ==
    /\ entry_pc = "new"
    /\ entry_ref' = Reference(entry_key, Strip(entry_text), UnknownChapter)
    /\ entry_pc' = "year_key"
    /\ UNCHANGED << entry_key, entry_text, entry_ret, parserVars, normVars, webVars,
                    mainVars >>

\* the year of the citation key
KeyYear ==
    /\ entry_pc = "year_key"
    /\ entry_ref' = YearFromKey(entry_ref, entry_key)
    /\ entry_pc' = "year_text"
    /\ UNCHANGED << entry_key, entry_text, entry_ret, parserVars, normVars, webVars,
                    mainVars >>

\* the year in parentheses
TextYear ==
    /\ entry_pc = "year_text"
    /\ entry_ref' = YearFromText(entry_ref, entry_text)
    /\ entry_pc' = "year_end"
    /\ UNCHANGED << entry_key, entry_text, entry_ret, parserVars, normVars, webVars,
                    mainVars >>

\* the year at the end
EndYear ==
    /\ entry_pc = "year_end"
    /\ entry_ref' = YearFromEnd(entry_ref, entry_text)
    /\ entry_pc' = "year_date"
    /\ UNCHANGED << entry_key, entry_text, entry_ret, parserVars, normVars, webVars,
                    mainVars >>

\* the year of a full date
DateYear ==
    /\ entry_pc = "year_date"
    /\ entry_ref' = YearFromDate(entry_ref, entry_text)
    /\ entry_pc' = "authors"
    /\ UNCHANGED << entry_key, entry_text, entry_ret, parserVars, normVars, webVars,
                    mainVars >>

\* authors, first_author and last_author
Authors ==
    /\ entry_pc = "authors"
    /\ entry_ref' = AuthorsStep(entry_ref, entry_text, entry_key)
    /\ entry_pc' = "title"
    /\ UNCHANGED << entry_key, entry_text, entry_ret, parserVars, normVars, webVars,
                    mainVars >>

\* the title
Title ==
    /\ entry_pc = "title"
    /\ entry_ref' = TitleStep(entry_ref, entry_text)
    /\ entry_pc' = "return"
    /\ UNCHANGED << entry_key, entry_text, entry_ret, parserVars, normVars, webVars,
                    mainVars >>

\* return ref if ref.raw_text else None
Return ==
    /\ entry_pc = "return"
    /\ entry_ret' = IF entry_ref.raw_text # << >> THEN entry_ref ELSE None
    /\ entry_pc' = "done"
    /\ UNCHANGED << entry_key, entry_text, entry_ref, parserVars, normVars, webVars,
                    mainVars >>

EntryNext ==
    \/ NewReference
    \/ KeyYear
    \/ TextYear
    \/ EndYear
    \/ DateYear
    \/ Authors
    \/ Title
    \/ Return

(***************************************************************************)
(* remove_chapter_markers, applied once and once more.                     *)
(***************************************************************************)
NormInit ==
    /\ norm_in \in NormTexts
    /\ norm_once = << >>
    /\ norm_twice = << >>
    /\ norm_pc = 0

NormIdle ==
    /\ norm_in = << >>
    /\ norm_once = << >>
    /\ norm_twice = << >>
    /\ norm_pc = -1

Normalise ==
    /\ norm_pc = 0
    /\ norm_once' = remove_chapter_markers(norm_in)
    /\ norm_pc' = 1
    /\ UNCHANGED << norm_in, norm_twice, parserVars, entryVars, mainVars, webVars >>

NormaliseAgain ==
    /\ norm_pc = 1
    /\ norm_twice' = remove_chapter_markers(norm_once)
    /\ norm_pc' = 2
    /\ UNCHANGED << norm_in, norm_once, parserVars, entryVars, mainVars, webVars >>

NormNext ==
    \/ Normalise
    \/ NormaliseAgain

(***************************************************************************)
(* process_references (src/main.py): one action per step of the pipeline.  *)
(* The lookup service answers from the network: what it finds for an       *)
(* author is any of Affiliations, and the same for the same name.          *)
(***************************************************************************)
\* the largest max_refs, of either sign, that the model calls with
MaxRefsBound == 1

\* the max_refs the model calls with: None (0), and what --max-refs gives
MaxRefsChoices == (-MaxRefsBound)..MaxRefsBound

\* refs[:n]
SliceTo(refs, n) ==
    IF n >= 0 THEN SubSeq(refs, 1, Min(n, Len(refs)))
    ELSE SubSeq(refs, 1, Max(Len(refs) + n, 0))

\* the affiliation of an AuthorInfo: none found, or one
Affiliations == { << >>, << "M", "I", "T" >> }

AuthorInfo(name, affiliation) == [name |-> name, affiliation |-> affiliation]

\* the name of an author in a record of Semantic Scholar
ScholarName == << "J", "o", "h", "n", " ", "S", "m", "i", "t", "h" >>

\* d[k] = v
Put(d, k, v) == [x \in DOMAIN d \cup { k } |-> IF x = k THEN v ELSE d[x]]

\* d.get(k)
Get(d, k) == IF k \in DOMAIN d THEN d[k] ELSE None

EmptyDict == [x \in { } |-> None]

\* the argument output_path
output_path == << "o", "u", "t", ".", "x", "l", "s", "x" >>

MainInit ==
    /\ verbose \in BOOLEAN
    /\ max_refs \in MaxRefsChoices
    /\ main_pc = "extract_text"
    /\ main_refs = << >>
    /\ main_i = 0
    /\ author_cache = EmptyDict
    /\ first_author_info = EmptyDict
    /\ last_author_info = EmptyDict
    /\ output_file = None
    /\ reported = << >>
    /\ main_ret = None
    /\ main_exc = None
    /\ lookup_calls = << >>

\* the variables of process_references while it is not called
MainIdle ==
    /\ verbose = FALSE
    /\ max_refs = 0
    /\ main_pc = "idle"
    /\ main_refs = << >>
    /\ main_i = 0
    /\ author_cache = EmptyDict
    /\ first_author_info = EmptyDict
    /\ last_author_info = EmptyDict
    /\ output_file = None
    /\ reported = << >>
    /\ main_ret = None
    /\ main_exc = None
    /\ lookup_calls = << >>

\* the exception a call let through: which call it was
RaisedBy(call) == [raised_by |-> call]

\* parser = PDFReferenceParser(pdf_path); parser.extract_text()
CallExtractText ==
    /\ main_pc = "extract_text"
    /\ pc = "ready"
    /\ IF ~pdf_file.readable
       THEN /\ pc' = "raised"
            /\ main_pc' = "raised"
            /\ main_exc' = RaisedBy("extract_text")
            /\ UNCHANGED raw_text
       ELSE /\ raw_text' = pdf_file.text
            /\ main_pc' = "parse_references"
            /\ UNCHANGED << pc, main_exc >>
    /\ UNCHANGED << pdf_file, references, chapters, i, current_chapter,
                    lines, ln, current_key, current_ref_text, results, calls,
                    call_text, call_read, call_base, chunk_base, entryVars,
                    normVars, webVars,
                    verbose, max_refs, main_refs, main_i, author_cache,
                    first_author_info, last_author_info, output_file,
                    reported, main_ret, lookup_calls >>

\* references = parser.parse_references(): the steps of the parser
CallParseReferences ==
    /\ main_pc = "parse_references"
    /\ results = << >>
    /\ ParseSteps

\* "Found N references" and references[:max_refs]
FoundReferences ==
    /\ main_pc = "parse_references"
    /\ pc = "ready"
    /\ results # << >>
    /\ reported' =
          IF verbose THEN Append(reported, Len(results[1])) ELSE reported
    /\ main_refs' =
          IF max_refs # 0 THEN SliceTo(results[1], max_refs) ELSE results[1]
    /\ main_i' = 0
    /\ main_pc' = "lookup"
    /\ UNCHANGED << parserVars, entryVars, normVars, webVars, verbose, max_refs,
                    author_cache, first_author_info, last_author_info,
                    output_file, main_ret, main_exc, lookup_calls >>

\* what lookup_author can return for a name: an AuthorInfo under that name
\* with or without an affiliation, or, when Semantic Scholar has an
\* affiliation, its record, under the name it gives
LookupResults(name) ==
    { AuthorInfo(name, a) : a \in Affiliations }
    \cup { AuthorInfo(ScholarName, a) : a \in Affiliations \ { << >> } }

\* the loop turn without the two tests "not in author_cache": every name is
\* looked up again
LookupAuthorUncached ==
    /\ main_pc = "lookup"
    /\ main_i < Len(main_refs)
    /\ LET ref == main_refs[main_i + 1]
           first == ref.first_author
           last == ref.last_author
       IN
       \E first_found \in LookupResults(first),
          last_found \in LookupResults(last) :
          LET first_new == first # << >>
              cache1 ==
                  IF first_new
                  THEN Put(author_cache, first, first_found)
                  ELSE author_cache
              first_info ==
                  IF first # << >>
                  THEN Put(first_author_info, main_i, cache1[first])
                  ELSE first_author_info
              looked_up == last # << >> /\ last # first
              last_new == looked_up
              cache2 ==
                  IF last_new
                  THEN Put(cache1, last, last_found)
                  ELSE cache1
          IN  /\ author_cache' = cache2
              /\ first_author_info' = first_info
              /\ last_author_info' =
                    IF looked_up
                    THEN Put(last_author_info, main_i, cache2[last])
                    ELSE IF last = first
                         THEN Put(last_author_info, main_i,
                                  Get(first_info, main_i))
                         ELSE last_author_info
              /\ lookup_calls' =
                    lookup_calls
                    \o (IF first_new THEN << first >> ELSE << >>)
                    \o (IF last_new THEN << last >> ELSE << >>)
    /\ main_i' = main_i + 1
    /\ UNCHANGED << parserVars, entryVars, normVars, webVars, verbose,
                    max_refs, main_pc, main_refs, output_file, reported,
                    main_ret, main_exc >>

\* one turn of the loop over references: the first and the last author;
\* lookup_calls lists the names lookup_author was called with
LookupAuthor ==
    /\ main_pc = "lookup"
    /\ main_i < Len(main_refs)
    /\ LET ref == main_refs[main_i + 1]
           first == ref.first_author
           last == ref.last_author
       IN
       \E first_found \in LookupResults(first),
          last_found \in LookupResults(last) :
          LET first_new == first # << >> /\ first \notin DOMAIN author_cache
              cache1 ==
                  IF first_new
                  THEN Put(author_cache, first, first_found)
                  ELSE author_cache
              first_info ==
                  IF first # << >>
                  THEN Put(first_author_info, main_i, cache1[first])
                  ELSE first_author_info
              looked_up == last # << >> /\ last # first
              last_new == looked_up /\ last \notin DOMAIN cache1
              cache2 ==
                  IF last_new
                  THEN Put(cache1, last, last_found)
                  ELSE cache1
          IN  /\ author_cache' = cache2
              /\ first_author_info' = first_info
              /\ last_author_info' =
                    IF looked_up
                    THEN Put(last_author_info, main_i, cache2[last])
                    ELSE IF last = first
                         THEN Put(last_author_info, main_i,
                                  Get(first_info, main_i))
                         ELSE last_author_info
              /\ lookup_calls' =
                    lookup_calls
                    \o (IF first_new THEN << first >> ELSE << >>)
                    \o (IF last_new THEN << last >> ELSE << >>)
    /\ main_i' = main_i + 1
    /\ UNCHANGED << parserVars, entryVars, normVars, webVars, verbose,
                    max_refs, main_pc, main_refs, output_file, reported,
                    main_ret, main_exc >>

\* create_output_data: the row of references[k] (k from 0)
OutputRow(k) ==
    LET ref == main_refs[k + 1]
        first_info == Get(first_author_info, k)
        last_info == Get(last_author_info, k)
    IN  [paper_title |-> ref.title,
         year |-> ref.year,
         chapter |-> ref.chapter,
         citation_key |-> ref.citation_key,
         first_author_name |->
             IF first_info # None THEN first_info.name ELSE ref.first_author,
         first_author_affiliation |->
             IF first_info # None THEN first_info.affiliation ELSE << >>,
         last_author_name |->
             IF last_info # None THEN last_info.name ELSE ref.last_author,
         last_author_affiliation |->
             IF last_info # None THEN last_info.affiliation ELSE << >>]

\* create_output_data and write_reference_data: workbook.save writes the
\* file, or raises when the file at output_path cannot be written
WriteOutput ==
    /\ main_pc = "lookup"
    /\ main_i >= Len(main_refs)
    /\ \/ /\ output_file' = [k \in 1..Len(main_refs) |-> OutputRow(k - 1)]
          /\ main_pc' = "summary"
          /\ UNCHANGED main_exc
       \/ /\ main_pc' = "raised"
          /\ main_exc' = RaisedBy("write_reference_data")
          /\ UNCHANGED output_file
    /\ UNCHANGED << parserVars, entryVars, normVars, webVars, verbose, max_refs,
                    main_refs, main_i, author_cache, first_author_info,
                    last_author_info, reported, main_ret, lookup_calls >>

\* the statistics, the summary (which prints len(references) and then
\* divides by it) and return output_path
Summary ==
    /\ main_pc = "summary"
    /\ reported' =
          IF verbose THEN Append(reported, Len(main_refs)) ELSE reported
    /\ IF verbose /\ Len(main_refs) = 0
       THEN /\ main_pc' = "raised"
            /\ main_exc' = RaisedBy("summary")
            /\ UNCHANGED main_ret
       ELSE /\ main_ret' = output_path
            /\ main_pc' = "done"
            /\ UNCHANGED main_exc
    /\ UNCHANGED << parserVars, entryVars, normVars, webVars, verbose, max_refs,
                    main_refs, main_i, author_cache, first_author_info,
                    last_author_info, output_file, lookup_calls >>

MainNext ==
    \/ CallExtractText
    \/ CallParseReferences
    \/ FoundReferences
    \/ LookupAuthor
    \/ WriteOutput
    \/ Summary

(***************************************************************************)
(* The web interface (src/web_interface.py): /upload, the process_job      *)
(* thread it starts, /status and pollStatus of the page.  process_job runs *)
(* on a thread of its own while requests are served, so each statement     *)
(* that writes jobs[job_id] is a step, and a /status request can run       *)
(* between any two of them.  process_references is the pipeline above; the *)
(* thread sees only whether it returns or raises.                          *)
(***************************************************************************)
\* how many jobs the model uploads
MaxJobs == 2

\* the job ids uuid4 gives, in the order they are given
Uuids == << "j1", "j2", "j3" >>

\* len(str(uuid.uuid4()))
UuidLen == 36

\* the most bytes a file name has in the file system of the upload folder
NAME_MAX == 255

JobIds == { Uuids[k] : k \in 1..MaxJobs }

\* a str where None can be too
Text(s) == [text |-> s]

\* a file of the request, by its filename
File(filename) == [filename |-> filename]

\* what /upload is sent: no pdf_file part (None), or a file
Uploads ==
    { None, File(<< >>), File(<< "a", ".", "t", "x", "t" >>),
      File(<< "U+0130", " ", "b", ".", "P", "D", "F" >>) }

\* file.filename.lower().endswith('.pdf')
IsPdfName(filename) ==
    LET lowered == LowerText(filename)
    IN  /\ Len(lowered) >= 4
        /\ SubSeq(lowered, Len(lowered) - 3, Len(lowered))
              = << ".", "p", "d", "f" >>

\* s.split(): the words of s, which whitespace separates
RECURSIVE Words(_)
Words(s) ==
    LET rest == LStripChars(s, Space)
        gaps == { p \in 1..Len(rest) : rest[p] \in Space }
    IN  IF rest = << >> THEN << >>
        ELSE IF gaps = {} THEN << rest >>
        ELSE LET p == CHOOSE q \in gaps : \A r \in gaps : q <= r
             IN  << SubSeq(rest, 1, p - 1) >>
                     \o Words(SubSeq(rest, p + 1, Len(rest)))

\* unicodedata.normalize("NFKD", s).encode("ascii", "ignore")
AsciiText(s) == Join([k \in 1..Len(s) |-> AsciiFold(s[k])], << >>)

\* s.replace(os.sep, " ")
NoSeparators(s) == [k \in 1..Len(s) |-> IF s[k] = "/" THEN " " ELSE s[k]]

\* the characters secure_filename keeps: those of [A-Za-z0-9_.-]
FilenameChars == Upper \cup Lower \cup AsciiDigit \cup { "_", ".", "-" }

KeepFilenameChars(s) == SelectSeq(s, LAMBDA c : c \in FilenameChars)

\* secure_filename(filename) of werkzeug.utils: the name in ASCII, its
\* words joined by "_", without a character outside [A-Za-z0-9_.-] and
\* without "." and "_" at its ends
secure_filename(filename) ==
    StripChars(
        KeepFilenameChars(
            Join(Words(NoSeparators(AsciiText(filename))), << "_" >>)),
        { ".", "_" })

\* app.config['UPLOAD_FOLDER']
UPLOAD_FOLDER == "/tmp/reference_extractor_uploads"

\* str(e) of the exceptions process_references raises: without and with a
\* message
ExceptionTexts == { Text(<< >>), Text(<< "E" >>) }

\* os.path.join(app.config['UPLOAD_FOLDER'], f"{job_id}_{filename}") for
\* filename = secure_filename(file.filename)
UploadPath(job_id, filename) ==
    Text(<< UPLOAD_FOLDER, "/", job_id, "_" >> \o secure_filename(filename))

\* file.save(upload_path) cannot but raise: the file name
\* f"{job_id}_{filename}" is longer than NAME_MAX
NameTooLong(filename) ==
    UuidLen + 1 + Len(secure_filename(filename)) > NAME_MAX

\* f"{job_id}_output.xlsx"
OutputFilename(job_id) == Text(<< job_id, "_output.xlsx" >>)

\* jobs[job_id] as /upload makes it
NewJob(upload_path) ==
    [status |-> "processing",
     progress |-> 0,
     message |-> "Starting...",
     input_file |-> upload_path,
     output_file |-> None,
     error |-> None]

\* the process_job thread of a job: the statement it is at and the
\* exception it caught
At(stmt) == [at |-> stmt, e |-> None]

Caught(stmt, e) == [at |-> stmt, e |-> e]

\* the reply of /status for a job id that is not in jobs
JobNotFound == [status |-> "error", error |-> "Job not found"]

\* '/download/' + outputFile, in the page; null is written "null"
Href(outputFile) ==
    Text(<< "/download/" >>
         \o (IF outputFile = None THEN << "null" >> ELSE outputFile.text))

WebInit ==
    /\ jobs = EmptyDict
    /\ job_pc = [j \in JobIds |-> At("none")]
    /\ response = [j \in JobIds |-> None]
    /\ client = [j \in JobIds |-> "idle"]
    /\ download_link = [j \in JobIds |-> None]
    /\ upload_reply = None
    /\ upload_exc = None
    /\ upload_pc = [j \in JobIds |-> "none"]

\* the variables of the web interface while it does not run
WebIdle == WebInit

\* upload() up to "jobs[job_id] = {...}": the three refusals, each with its
\* reply; file.save(upload_path) raises, as it must for a name that is too
\* long and can for any (the upload folder is gone, the disk is full), and
\* so does upload(), with no job made; or a new job
Upload(file) ==
    /\ UNCHANGED << parserVars, entryVars, normVars, mainVars >>
    /\ IF file = None \/ file.filename = << >> \/ ~IsPdfName(file.filename)
       THEN /\ upload_reply' =
                  [success |-> FALSE,
                   error |-> IF file = None THEN "No file uploaded"
                             ELSE IF file.filename = << >>
                             THEN "No file selected"
                             ELSE "Only PDF files are allowed"]
            /\ upload_exc' = None
            /\ UNCHANGED << jobs, job_pc, response, client, download_link,
                            upload_pc >>
       ELSE \/ /\ upload_exc' = RaisedBy("file.save")
               /\ upload_reply' = None
               /\ UNCHANGED << jobs, job_pc, response, client, download_link,
                               upload_pc >>
            \/ /\ ~NameTooLong(file.filename)
               /\ Cardinality(DOMAIN jobs) < MaxJobs
               /\ LET job_id == Uuids[Cardinality(DOMAIN jobs) + 1]
                  IN  /\ jobs' =
                            Put(jobs, job_id,
                                NewJob(UploadPath(job_id, file.filename)))
                      /\ upload_pc' =
                            [upload_pc EXCEPT ![job_id] = "start_thread"]
               /\ UNCHANGED << job_pc, response, client, download_link,
                               upload_reply, upload_exc >>

\* upload(): thread = threading.Thread(target=process_job, ...) and
\* thread.start()
StartThread(job_id) ==
    /\ upload_pc[job_id] = "start_thread"
    /\ job_pc' = [job_pc EXCEPT ![job_id] = At("message_parsing")]
    /\ upload_pc' = [upload_pc EXCEPT ![job_id] = "reply"]
    /\ UNCHANGED << jobs, response, client, download_link, upload_reply,
                    upload_exc, parserVars, entryVars, normVars, mainVars >>

\* upload(): return jsonify({'success': True, 'job_id': job_id})
UploadReply(job_id) ==
    /\ upload_pc[job_id] = "reply"
    /\ upload_reply' = [success |-> TRUE, job_id |-> job_id]
    /\ upload_exc' = None
    /\ upload_pc' = [upload_pc EXCEPT ![job_id] = "replied"]
    /\ UNCHANGED << jobs, job_pc, response, client, download_link,
                    parserVars, entryVars, normVars, mainVars >>

\* the page, on the reply of /upload: pollStatus(result.job_id)
StartPolling(job_id) ==
    /\ upload_pc[job_id] = "replied"
    /\ client' = [client EXCEPT ![job_id] = "polling"]
    /\ upload_pc' = [upload_pc EXCEPT ![job_id] = "done"]
    /\ UNCHANGED << jobs, job_pc, response, download_link, upload_reply,
                    upload_exc, parserVars, entryVars, normVars, mainVars >>

\* the steps of an accepted /upload request after the job is made
UploadSteps(job_id) ==
    \/ StartThread(job_id)
    \/ UploadReply(job_id)
    \/ StartPolling(job_id)

\* the frame of a step of the process_job thread
ThreadFrame ==
    << response, client, download_link, upload_reply, upload_exc, upload_pc,
       parserVars, entryVars, normVars, mainVars >>

\* jobs[job_id]['message'] = 'Parsing PDF...'
SetMessageParsing(job_id) ==
    /\ job_pc[job_id].at = "message_parsing"
    /\ jobs' = [jobs EXCEPT ![job_id].message = "Parsing PDF..."]
    /\ job_pc' = [job_pc EXCEPT ![job_id] = At("progress_10")]
    /\ UNCHANGED ThreadFrame

\* jobs[job_id]['progress'] = 10
SetProgress10(job_id) ==
    /\ job_pc[job_id].at = "progress_10"
    /\ jobs' = [jobs EXCEPT ![job_id].progress = 10]
    /\ job_pc' = [job_pc EXCEPT ![job_id] = At("message_extracting")]
    /\ UNCHANGED ThreadFrame

\* jobs[job_id]['message'] = 'Extracting author information...'
SetMessageExtracting(job_id) ==
    /\ job_pc[job_id].at = "message_extracting"
    /\ jobs' =
          [jobs EXCEPT ![job_id].message = "Extracting author information..."]
    /\ job_pc' = [job_pc EXCEPT ![job_id] = At("progress_30")]
    /\ UNCHANGED ThreadFrame

\* jobs[job_id]['progress'] = 30
SetProgress30(job_id) ==
    /\ job_pc[job_id].at = "progress_30"
    /\ jobs' = [jobs EXCEPT ![job_id].progress = 30]
    /\ job_pc' = [job_pc EXCEPT ![job_id] = At("process_references")]
    /\ UNCHANGED ThreadFrame

\* process_references(...) returns, or raises and the except clause is
\* entered
CallProcessReferences(job_id) ==
    /\ job_pc[job_id].at = "process_references"
    /\ \/ job_pc' = [job_pc EXCEPT ![job_id] = At("progress_100")]
       \/ \E e \in ExceptionTexts :
             job_pc' = [job_pc EXCEPT ![job_id] = Caught("status_error", e)]
    /\ UNCHANGED << jobs, ThreadFrame >>

\* jobs[job_id]['progress'] = 100
SetProgress100(job_id) ==
    /\ job_pc[job_id].at = "progress_100"
    /\ jobs' = [jobs EXCEPT ![job_id].progress = 100]
    /\ job_pc' = [job_pc EXCEPT ![job_id] = At("status_complete")]
    /\ UNCHANGED ThreadFrame

\* jobs[job_id]['status'] = 'complete'
SetStatusComplete(job_id) ==
    /\ job_pc[job_id].at = "status_complete"
    /\ jobs' = [jobs EXCEPT ![job_id].status = "complete"]
    /\ job_pc' = [job_pc EXCEPT ![job_id] = At("message_complete")]
    /\ UNCHANGED ThreadFrame

\* jobs[job_id]['message'] = 'Complete!'
SetMessageComplete(job_id) ==
    /\ job_pc[job_id].at = "message_complete"
    /\ jobs' = [jobs EXCEPT ![job_id].message = "Complete!"]
    /\ job_pc' = [job_pc EXCEPT ![job_id] = At("output_file")]
    /\ UNCHANGED ThreadFrame

\* jobs[job_id]['output_file'] = output_filename
SetOutputFile(job_id) ==
    /\ job_pc[job_id].at = "output_file"
    /\ jobs' = [jobs EXCEPT ![job_id].output_file = OutputFilename(job_id)]
    /\ job_pc' = [job_pc EXCEPT ![job_id] = At("finished")]
    /\ UNCHANGED ThreadFrame

\* except: jobs[job_id]['status'] = 'error'
SetStatusError(job_id) ==
    /\ job_pc[job_id].at = "status_error"
    /\ jobs' = [jobs EXCEPT ![job_id].status = "error"]
    /\ job_pc' = [job_pc EXCEPT ![job_id].at = "error"]
    /\ UNCHANGED ThreadFrame

\* except: jobs[job_id]['error'] = str(e)
SetError(job_id) ==
    /\ job_pc[job_id].at = "error"
    /\ jobs' = [jobs EXCEPT ![job_id].error = job_pc[job_id].e]
    /\ job_pc' = [job_pc EXCEPT ![job_id] = At("finished")]
    /\ UNCHANGED ThreadFrame

\* the steps of the process_job thread of a job
ProcessJob(job_id) ==
    \/ SetMessageParsing(job_id)
    \/ SetProgress10(job_id)
    \/ SetMessageExtracting(job_id)
    \/ SetProgress30(job_id)
    \/ CallProcessReferences(job_id)
    \/ SetProgress100(job_id)
    \/ SetStatusComplete(job_id)
    \/ SetMessageComplete(job_id)
    \/ SetOutputFile(job_id)
    \/ SetStatusError(job_id)
    \/ SetError(job_id)

\* what get_status(job_id) returns: the job dict as it is when the request
\* is served
StatusReply(job_id) ==
    IF job_id \in DOMAIN jobs THEN jobs[job_id] ELSE JobNotFound

\* the frame of a step of a /status request and of the page
PollFrame ==
    << jobs, job_pc, upload_reply, upload_exc, upload_pc, parserVars,
       entryVars, normVars, mainVars >>

\* get_status(job_id), serving the request that pollStatus(job_id) of the
\* page made
GetStatus(job_id) ==
    /\ client[job_id] = "polling"
    /\ response[job_id] = None
    /\ response' = [response EXCEPT ![job_id] = StatusReply(job_id)]
    /\ UNCHANGED << client, download_link, PollFrame >>

\* pollStatus(jobId), from the response on: showSuccess, showError, or
\* another request in a second
PollStatus(jobId) ==
    /\ client[jobId] = "polling"
    /\ response[jobId] # None
    /\ LET status == response[jobId]
       IN  IF status.status = "complete"
           THEN /\ client' = [client EXCEPT ![jobId] = "success"]
                /\ download_link' =
                      [download_link EXCEPT ![jobId] = Href(status.output_file)]
           ELSE IF status.status = "error"
           THEN /\ client' = [client EXCEPT ![jobId] = "error"]
                /\ UNCHANGED download_link
           ELSE UNCHANGED << client, download_link >>
    /\ response' = [response EXCEPT ![jobId] = None]
    /\ UNCHANGED PollFrame

\* pollStatus(jobId), the catch clause: fetch rejects, or the reply is not
\* JSON; showError(error.message), and no further request
PollFails(jobId) ==
    /\ client[jobId] = "polling"
    /\ client' = [client EXCEPT ![jobId] = "error"]
    /\ response' = [response EXCEPT ![jobId] = None]
    /\ UNCHANGED << download_link, PollFrame >>

WebNext ==
    \/ \E file \in Uploads : Upload(file)
    \/ \E job_id \in JobIds : UploadSteps(job_id)
    \/ \E job_id \in JobIds : ProcessJob(job_id)
    \/ \E job_id \in JobIds : GetStatus(job_id)
    \/ \E jobId \in JobIds : PollStatus(jobId)
    \/ \E jobId \in JobIds : PollFails(jobId)

(***************************************************************************)
(* The specifications: a parser and its caller; one entry; the normaliser;  *)
(* the pipeline; the web interface, without and with a scheduler that runs  *)
(* every started thread.                                                  *)
(***************************************************************************)
Init == ParserInit /\ EntryIdle /\ NormIdle /\ MainIdle /\ WebIdle

Next == ParserNext

Spec == Init /\ [][Next]_vars

EntrySpecInit ==
    EntryInit /\ ParserIdle /\ NormIdle /\ MainIdle /\ WebIdle

EntrySpec == EntrySpecInit /\ [][EntryNext]_vars

NormSpecInit ==
    NormInit /\ ParserIdle /\ EntryIdle /\ MainIdle /\ WebIdle

NormSpec == NormSpecInit /\ [][NormNext]_vars

MainSpecInit ==
    ParserInitOn(MainFiles) /\ MainInit /\ EntryIdle /\ NormIdle /\ WebIdle

MainSpec == MainSpecInit /\ [][MainNext]_vars

WebSpecInit == WebInit /\ ParserIdle /\ EntryIdle /\ NormIdle /\ MainIdle

WebSpec == WebSpecInit /\ [][WebNext]_vars

\* upload() runs on after it has made a job, a started thread is run, and
\* process_references returns or raises
WebFairSpec ==
    /\ WebSpecInit
    /\ [][WebNext]_vars
    /\ \A job_id \in JobIds : WF_vars(StartThread(job_id))
    /\ \A job_id \in JobIds : WF_vars(UploadReply(job_id))
    /\ \A job_id \in JobIds : WF_vars(ProcessJob(job_id))




(***************************************************************************)
(* The properties of one parsed entry, under EntrySpec.                    *)
(***************************************************************************)

\* the call has returned a Reference
Emitted == entry_pc = "done" /\ entry_ret # None

\* C1: every emitted Reference has first_author = authors[0] and
\* last_author = authors[-1] when it has authors and both empty when it has
\* none, so that first_author = last_author when there is at most one author
C1_FirstLastAuthor ==
    Emitted =>
        LET authors == entry_ret.authors
        IN  /\ Len(authors) = 0 =>
                  entry_ret.first_author = << >> /\ entry_ret.last_author = << >>
            /\ Len(authors) > 0 =>
                  /\ entry_ret.first_author = authors[1]
                  /\ entry_ret.last_author = authors[Len(authors)]
            /\ Len(authors) <= 1 =>
                  entry_ret.first_author = entry_ret.last_author

\* an emitted Reference with exactly one author
C1_Witness == Emitted /\ Len(entry_ret.authors) = 1

\* the places of key where an apostrophe, straight or curly (U+2018,
\* U+2019), has two of the digits 0 to 9 after it
YearSuffixPlaces(key) ==
    { p \in 1..(Len(key) - 2) :
        /\ key[p] \in { "'", "U+2018", "U+2019" }
        /\ key[p + 1] \in AsciiDigit
        /\ key[p + 2] \in AsciiDigit }

\* the two digits of the year suffix of key, or the empty text if key has no
\* year suffix or one of more than two digits
TwoDigitSuffix(key) ==
    IF YearSuffixPlaces(key) = {} THEN << >>
    ELSE LET p == CHOOSE q \in YearSuffixPlaces(key) :
                      \A r \in YearSuffixPlaces(key) : q <= r
         IN  IF p + 3 <= Len(key) /\ key[p + 3] \in Digit THEN << >>
             ELSE << key[p + 1], key[p + 2] >>

\* the two-digit texts that read as a number above 50: 51 to 59, 60 to 99
AboveFifty ==
    { << "5", d >> : d \in AsciiDigit \ { "0" } }
    \cup { << c, d >> : c \in { "6", "7", "8", "9" }, d \in AsciiDigit }

\* C2: a key whose year suffix after the apostrophe, straight or curly, is
\* two digits YY gives year 19YY when YY > 50 and 20YY when YY <= 50,
\* whatever year the entry text holds
C2_TwoDigitPivot ==
    (Emitted /\ TwoDigitSuffix(entry_key) # << >>) =>
        entry_ret.year =
            (IF TwoDigitSuffix(entry_key) \in AboveFifty THEN << "1", "9" >>
             ELSE << "2", "0" >>) \o TwoDigitSuffix(entry_key)

\* C3: once a stage of the year cascade has set year, no later step of the
\* call changes it
C3_YearSetOnce ==
    [][(entry_ref # None /\ entry_ref.year # << >>) =>
          entry_ref'.year = entry_ref.year]_vars

\* the key gave 1951, the text holds (1987), and the stage that reads (YYYY)
\* has run
C3_Witness ==
    /\ entry_pc = "year_end"
    /\ entry_ref.year = << "1", "9", "5", "1" >>
    /\ Contains(entry_text, << "(", "1", "9", "8", "7", ")" >>)


(***************************************************************************)
(* The properties of the document-level parse, under Spec.  What a chunk   *)
(* holds is said here line by line, without the loop of parse_references:  *)
(* a key line is a line that, trimmed, opens with a bracket, has a         *)
(* character other than the closing bracket next, and closes the bracket   *)
(* later; its entry text is what follows the closing bracket together with *)
(* the lines after it, up to the next key line, that are not blank.        *)
(***************************************************************************)
IsKeyLine(l) ==
    LET s == Strip(l)
    IN  /\ Len(s) >= 3
        /\ s[1] = "["
        /\ s[2] # "]"
        /\ \E q \in 3..Len(s) : s[q] = "]"

\* the place of the bracket that closes the key of the trimmed key line s
KeyEnd(s) == CHOOSE q \in 3..Len(s) : s[q] = "]" /\ \A r \in 3..(q - 1) : s[r] # "]"

KeyOfLine(l) == SubSeq(Strip(l), 2, KeyEnd(Strip(l)) - 1)

RestOfLine(l) == Strip(SubSeq(Strip(l), KeyEnd(Strip(l)) + 1, Len(Strip(l))))

KeyLinesOf(ls) == { k \in 1..Len(ls) : IsKeyLine(ls[k]) }

\* the lines that continue the key line k of ls
ContinuationsOf(ls, k) ==
    { j \in (k + 1)..Len(ls) :
        /\ Strip(ls[j]) # << >>
        /\ \A m \in (k + 1)..j : ~IsKeyLine(ls[m]) }

HasText(ls, k) == RestOfLine(ls[k]) # << >> \/ ContinuationsOf(ls, k) # {}

\* the texts of a set of lines of ls, in the order of the lines
RECURSIVE TextsOf(_, _)
TextsOf(ls, js) ==
    IF js = {} THEN << >>
    ELSE LET j == CHOOSE x \in js : \A y \in js : x <= y
         IN  << Strip(ls[j]) >> \o TextsOf(ls, js \ { j })

\* the entry text of the key line k of ls
EntryTextOf(ls, k) ==
    Join((IF RestOfLine(ls[k]) # << >> THEN << RestOfLine(ls[k]) >> ELSE << >>)
         \o TextsOf(ls, ContinuationsOf(ls, k)), << " " >>)

\* the content chunks of a document and the lines of each
ContentChunks(doc) ==
    LET parts == ReSplit(ChapterRe, doc)
    IN  [c \in 1..((Len(parts) + 1) \div 2) |-> parts[2 * c - 1]]

ChunkLines(chunk) == SplitChar(Strip(chunk), "\n")

\* a parse_references call has returned
Returned == pc = "ready" /\ Len(results) > 0

\* C4 as claimed: the References a chunk emitted are as many as its key
\* lines, those without entry text included
C4_CountAllKeyLines ==
    pc # "lines" =>
        Len(references) - chunk_base = Cardinality(KeyLinesOf(lines))

\* C4: the References a chunk emitted are as many as its key lines that have
\* entry text, on the key line or on the lines that continue it
C4_CountKeyLinesWithText ==
    pc # "lines" =>
        Len(references) - chunk_base =
            Cardinality({ k \in KeyLinesOf(lines) : HasText(lines, k) })

\* a chunk is done that holds a key line without entry text and has emitted
\* a Reference
C4_Witness ==
    /\ pc = "chunks"
    /\ i > 0
    /\ \E k \in KeyLinesOf(lines) : ~HasText(lines, k)
    /\ Len(references) - chunk_base >= 1


\* the keys of the key lines of ls, in the order of the lines
RECURSIVE KeysOf(_, _)
KeysOf(ls, ks) ==
    IF ks = {} THEN << >>
    ELSE LET k == CHOOSE x \in ks : \A y \in ks : x <= y
         IN  << KeyOfLine(ls[k]) >> \o KeysOf(ls, ks \ { k })

\* the keys of the key lines of a document, chunk after chunk
RECURSIVE KeysFrom(_, _)
KeysFrom(chunks, c) ==
    IF c > Len(chunks) THEN << >>
    ELSE KeysOf(ChunkLines(chunks[c]), KeyLinesOf(ChunkLines(chunks[c])))
         \o KeysFrom(chunks, c + 1)

DocKeys(doc) == KeysFrom(ContentChunks(doc), 1)

\* a is b with some of its elements left out
RECURSIVE IsSubSeq(_, _)
IsSubSeq(a, b) ==
    IF Len(a) = 0 THEN TRUE
    ELSE IF Len(b) = 0 THEN FALSE
    ELSE IF Head(a) = Head(b) THEN IsSubSeq(Tail(a), Tail(b))
    ELSE IsSubSeq(a, Tail(b))

CitationKeys(refs) == [k \in 1..Len(refs) |-> refs[k].citation_key]

\* C5: every sequence parse_references returns lists the References in the
\* order of their key lines in the document: its citation keys are the
\* document's keys, in their order, with some left out
C5_DocumentOrder ==
    \A k \in 1..Len(results) :
        IsSubSeq(CitationKeys(results[k]), DocKeys(raw_text))

\* C6: every call of parse_references on the same parser returns what the
\* first call returned, with no record of an earlier call in it: once a
\* call has returned, the list it returned stays as that call left it and
\* every later call returns that same sequence
C6_SameAsFirstCall ==
    [][results # << >> =>
          \A k \in 1..Len(results') : results'[k] = results[1]]_vars

\* C7: a call of parse_references that finds the text empty does not ask for
\* the text of the file, does not raise and gives no Reference
C7_EmptyTextNoRecords ==
    (calls = 1 /\ call_text = << >>) =>
        /\ ~call_read
        /\ pc # "raised"
        /\ references = << >>

\* the entries, key and entry text, of the key lines with entry text of the
\* chunks of a document from chunk c on
EntriesFrom(chunks, c) ==
    UNION { { << KeyOfLine(ChunkLines(chunks[d])[k]),
                 EntryTextOf(ChunkLines(chunks[d]), k) >> :
                k \in { x \in KeyLinesOf(ChunkLines(chunks[d])) :
                          HasText(ChunkLines(chunks[d]), x) } } :
            d \in c..Len(chunks) }

\* the key and the entry text of every emitted Reference
EmittedEntries ==
    { << references[k].citation_key, references[k].raw_text >> :
        k \in 1..Len(references) }

\* the first chunk of the document is a preamble: it holds "Bibliography"
HasPreamble(doc) == Contains(ContentChunks(doc)[1], BibliographyWord)

\* C8 as claimed: every key line with entry text, in whatever chunk, has its
\* Reference in what a call returns
C8_EveryEntryEmitted ==
    Returned => EntriesFrom(ContentChunks(raw_text), 1) \subseteq EmittedEntries

\* C8: every key line with entry text has its Reference in what a call
\* returns, whatever its other fields, unless it lies in the chunk before
\* the first banner and that chunk holds the word "Bibliography"
C8_EntryEmittedUnlessPreamble ==
    Returned =>
        EntriesFrom(ContentChunks(raw_text),
                    IF HasPreamble(raw_text) THEN 2 ELSE 1)
            \subseteq EmittedEntries

\* a call has returned, from the chunk before the first banner, a Reference
\* without year and without authors
C8_Witness ==
    /\ Returned
    /\ Len(chapters) > 1
    /\ \E k \in 1..Len(references) :
          /\ references[k].chapter = UnknownChapter
          /\ references[k].year = << >>
          /\ references[k].authors = << >>

\* the entries the line-oriented segmenter finds in a document
RECURSIVE LineCountFrom(_, _)
LineCountFrom(chunks, c) ==
    IF c > Len(chunks) THEN 0
    ELSE Cardinality({ k \in KeyLinesOf(ChunkLines(chunks[c])) :
                         HasText(ChunkLines(chunks[c]), k) })
         + LineCountFrom(chunks, c + 1)

LineCount(doc) ==
    LineCountFrom(ContentChunks(doc), IF HasPreamble(doc) THEN 2 ELSE 1)

\* C10: what the pipeline's parse returns has as many entries as the
\* segmenter, line-oriented or flattened-span, that finds more
C10_MoreEntriesWin ==
    (Returned /\ calls = 1) =>
        Len(results[1]) =
            Max(LineCount(raw_text), Len(split_into_references(raw_text)))

(***************************************************************************)
(* The property of the normaliser, under NormSpec.                         *)
(***************************************************************************)

\* C9: remove_chapter_markers applied to its own result changes nothing
C9_Idempotent == norm_pc = 2 => norm_twice = norm_once


(***************************************************************************)
(* The property of the pipeline, under MainSpec.                           *)
(***************************************************************************)

\* no citation-key marker anywhere in the text
NoKeyMarkers(text) == ~Contains(text, << "[" >>)

\* C11: a segmentation miss is not fatal: when the text holds no
\* citation-key marker, parse_references returns the empty sequence and
\* process_references, verbose or not, reports the count, writes the output
\* and returns output_path without raising
C11_MissNotFatal ==
    (/\ main_pc \in { "done", "raised" }
     /\ pdf_file.readable
     /\ main_exc # RaisedBy("write_reference_data")
     /\ NoKeyMarkers(pdf_file.text))
    => /\ main_pc = "done"
       /\ results = << << >> >>
       /\ output_file = << >>
       /\ main_ret = output_path
       /\ verbose => reported = << 0, 0 >>

\* a text of exactly four digits
IsFourDigits(s) == Len(s) = 4 /\ \A k \in 1..4 : s[k] \in Digit

\* C12: the year of every emitted Reference is the empty text or exactly
\* four digits, for keys with two, three and four digits after the
\* apostrophe and every entry text
C12_YearFourDigitsOrEmpty ==
    Emitted => (entry_ret.year = << >> \/ IsFourDigits(entry_ret.year))

\* key with each curly apostrophe replaced by the straight one
StraightKey(key) ==
    [k \in 1..Len(key) |->
        IF key[k] \in { "U+2018", "U+2019" } THEN "'" ELSE key[k]]

\* C13: the year of the citation key is read after a straight and after
\* either curly apostrophe alike: an entry gets the year that the same entry
\* with the apostrophes of its key made straight gets
C13_CurlyLikeStraight ==
    Emitted =>
        entry_ret.year =
            _parse_single_reference(StraightKey(entry_key), entry_text,
                                    UnknownChapter).year

\* the call for the entry with this key and this text has returned a
\* Reference
DoneFor(key, text) == Emitted /\ entry_key = key /\ entry_text = text

\* C15: the entry [Van der Maaten '08] has the authors
\* "L.J.P. Van der Maaten" and "G.E. Hinton", in that order: the surname
\* with a lowercase particle is joined with the initials after its comma,
\* and each unit between semicolons gives one author
C15_VanDerMaatenAuthors ==
    DoneFor(VanDerMaatenKey, VanDerMaatenText) =>
        entry_ret.authors =
            << << "L", ".", "J", ".", "P", ".", " ", "V", "a", "n", " ", "d",
                  "e", "r", " ", "M", "a", "a", "t", "e", "n" >>,
               << "G", ".", "E", ".", " ", "H", "i", "n", "t", "o", "n" >> >>

\* s.endswith(sub)
EndsWith(s, sub) == Len(s) >= Len(sub) /\ StartsAt(s, sub, Len(s) - Len(sub))

\* the surnames of the entry [Chen '20 A], in the order of its text
ChenSurnames ==
    << << "C", "h", "e", "n" >>,
       << "K", "o", "r", "n", "b", "l", "i", "t", "h" >>,
       << "N", "o", "r", "o", "u", "z", "i" >>,
       << "H", "i", "n", "t", "o", "n" >> >>

\* C16: an entry with key "Chen '20 A" whose text begins with
\* "Chen, T., Kornblith, S., Norouzi, M., & Hinton, G. (2020)." has exactly
\* four authors, in the order of the text and each with the surname last,
\* last_author "G. Hinton" and year "2020"
C16_ChenFourAuthors ==
    (Emitted /\ entry_key = ChenKey /\ StartsAt(entry_text, ChenAuthorsYear, 0))
    =>  /\ Len(entry_ret.authors) = Len(ChenSurnames)
        /\ \A k \in DOMAIN ChenSurnames :
              EndsWith(entry_ret.authors[k], << " " >> \o ChenSurnames[k])
        /\ entry_ret.last_author =
               << "G", ".", " ", "H", "i", "n", "t", "o", "n" >>
        /\ entry_ret.year = << "2", "0", "2", "0" >>

\* C17: the entry [Wiener '48] has year "1948", the one author "N. Wiener"
\* and a title that starts with "Time, communication, and the nervous
\* system" and does not hold "Annals of the N.Y. Acad. Sci.": of the parts
\* the text after the year splits into, the title is the first only
C17_WienerEntry ==
    DoneFor(WienerKey, WienerText) =>
        /\ entry_ret.year = << "1", "9", "4", "8" >>
        /\ entry_ret.authors =
               << << "N", ".", " ", "W", "i", "e", "n", "e", "r" >> >>
        /\ StartsAt(entry_ret.title,
                    << "T", "i", "m", "e", ",", " ", "c", "o", "m", "m", "u",
                       "n", "i", "c", "a", "t", "i", "o", "n", ",", " ", "a",
                       "n", "d", " ", "t", "h", "e", " ", "n", "e", "r", "v",
                       "o", "u", "s", " ", "s", "y", "s", "t", "e", "m" >>, 0)
        /\ ~Contains(entry_ret.title,
                     << "A", "n", "n", "a", "l", "s", " ", "o", "f", " ", "t",
                        "h", "e", " ", "N", ".", "Y", ".", " ", "A", "c", "a",
                        "d", ".", " ", "S", "c", "i", "." >>)

\* X of the first "Translated by X (YYYY)" of text
TranslatorOf(text) ==
    Strip(GroupOf(ReSearch(TranslatedByRe, text), 1, text))

\* C18: an entry whose text holds "Translated by X (YYYY)" has the
\* normalised X as its only author ("D. R. Hill" for "Translated by
\* D. R. Hill (1979)"), and its title holds no "translated by", whatever
\* stands before the clause
C18_TranslationEntry ==
    (Emitted /\ Found(TranslatedByRe, entry_text)) =>
        /\ entry_ret.authors =
               << _normalize_author_name(TranslatorOf(entry_text)) >>
        /\ entry_text \in TranslationTexts =>
               entry_ret.authors =
                   << << "D", ".", " ", "R", ".", " ", "H", "i", "l", "l" >> >>
        /\ ~Contains(LowerText(entry_ret.title),
                     << "t", "r", "a", "n", "s", "l", "a", "t", "e", "d", " ",
                        "b", "y" >>)

\* text names no translator and no editor and holds no (YYYY)
PlainAuthors(text) ==
    /\ ~Found(TranslatedByRe, text)
    /\ ~Found(EditedByRe, text)
    /\ ~Found(ParenYearRe, text)

\* everything before the first period of text, the first 50 characters when
\* text has no period
BeforeFirstPeriod(text) ==
    IF Contains(text, << "." >>) THEN Slice(text, 0, Find(text, << "." >>))
    ELSE Slice(text, 0, Min(AuthorPrefixLen, Len(text)))

\* the authors stage has run
AuthorsDone == entry_pc \in { "title", "return", "done" }

\* C22: for an entry text without "Translated by", "Edited by" and (YYYY),
\* the text the author list is parsed from is what stands before the first
\* period (the first 50 characters without a period), trimmed as every
\* author text is, also when the text holds a bare four-digit number
C22_AuthorsBeforeFirstPeriod ==
    (AuthorsDone /\ PlainAuthors(entry_text)) =>
        /\ AuthorsText(entry_text) =
               RStripChars(RStripChars(Strip(BeforeFirstPeriod(entry_text)),
                                       { "," }), { "." })
        /\ entry_ref.authors =
               _parse_author_list(
                   RStripChars(RStripChars(
                       Strip(BeforeFirstPeriod(entry_text)), { "," }), { "." }))

\* the title stage has run
TitleDone == entry_pc \in { "return", "done" }

\* the text after the parenthesised year of text, leading punctuation
\* stripped
AfterYearText(text) ==
    ReSub(LeadingPunctRe, << >>,
          Slice(text, ReSearch(TitleYearRe, text).end, Len(text)))

\* C23: for an entry with a parenthesised year (and no translation clause)
\* the title comes from the text after the parenthesis alone and is empty
\* when nothing follows it: the fallback extractor is not entered
C23_TitleAfterYearOnly ==
    (/\ TitleDone
     /\ Found(TitleYearRe, entry_text)
     /\ ~Found(TranslationClauseRe, entry_text))
    =>  /\ entry_ref.title =
               _clean_title(
                   _extract_title_from_text(AfterYearText(entry_text)))
        /\ AfterYearText(entry_text) = << >> => entry_ref.title = << >>

\* text with every ellipsis U+2026 written as three dots
AsciiEllipsis(text) == Replace(text, << "U+2026" >>, << ".", ".", "." >>)

\* C24: the et-al marker written with the ellipsis U+2026 before the
\* ampersand is read like the one written with three dots: an entry has
\* the authors that the same entry with three dots for every ellipsis has
C24_EllipsisLikeDots ==
    AuthorsDone =>
        entry_ref.authors =
            _extract_authors_smart(AsciiEllipsis(entry_text), entry_key)

\* the punctuation of ASCII (the grave accent left out)
Punctuation ==
    { "!", "\"", "#", "$", "%", "&", "'", "(", ")", "*", "+", ",", "-", ".",
      "/", ":", ";", "<", "=", ">", "?", "@", "[", "\\", "]", "^", "_", "{",
      "|", "}", "~" }

\* a non-empty text that is not made of digits, white space and punctuation
\* only
IsName(a) ==
    /\ a # << >>
    /\ \E k \in 1..Len(a) : a[k] \notin Digit \cup Space \cup Punctuation

\* C25: every element of authors is a non-empty name that is not made only
\* of digits, white space and punctuation, whether it is the translator, an
\* editor or an author of the ordinary list
C25_AuthorsAreNames ==
    AuthorsDone =>
        \A k \in 1..Len(entry_ref.authors) : IsName(entry_ref.authors[k])

\* the parts of a major part between commas, stripped
CommaParts(part) ==
    LET split == SplitChar(part, ",")
    IN  [k \in 1..Len(split) |-> Strip(split[k])]

\* the parts between commas of authors_text that are one capitalised word
\* of more than 2 characters
LoneWords(authors_text) ==
    UNION { { CommaParts(major_parts(authors_text)[m])[k] :
                k \in { j \in 1..Len(CommaParts(major_parts(authors_text)[m])) :
                          LET w == CommaParts(major_parts(authors_text)[m])[j]
                          IN  Matches(SingleCapWordRe, w) /\ Len(w) > 2 } } :
            m \in 1..Len(major_parts(authors_text)) }

\* name is the word w, or begins or ends with it as a word of its own
HasWord(name, w) ==
    \/ name = w
    \/ EndsWith(name, << " " >> \o w)
    \/ StartsAt(name, w \o << " " >>, 0)

\* C26: a part between commas that is one capitalised word of more than 2
\* characters is never lost: some author is the word alone or the word
\* with the initials or first name it was combined with, also when the
\* part after it looks like initials
C26_LoneWordKept ==
    (AuthorsDone /\ ~Found(TranslatedByRe, entry_text)) =>
        \A w \in LoneWords(EditedAuthorsText(entry_text,
                                             ReSearch(EditedByRe, entry_text))) :
            \E k \in 1..Len(entry_ref.authors) :
                HasWord(entry_ref.authors[k], w)

(***************************************************************************)
(* More properties of the document-level parse, under Spec.                *)
(***************************************************************************)

\* the References of the running or last call
OwnReferences == SubSeq(references, call_base + 1, Len(references))

\* the running call is past the chunk before the first banner
FirstChunkDone == pc = "chunks" /\ i = 1

\* C14: the entries of the chunk before the first banner (the whole text
\* when there is no banner) are emitted with chapter "Unknown", unless that
\* chunk holds the word "Bibliography": then it gives no Reference at all
C14_FirstChunkUnknown ==
    FirstChunkDone =>
        IF Contains(chapters[1], BibliographyWord)
        THEN OwnReferences = << >>
        ELSE /\ Len(OwnReferences) =
                   Cardinality({ k \in KeyLinesOf(ChunkLines(chapters[1])) :
                                   HasText(ChunkLines(chapters[1]), k) })
             /\ \A k \in 1..Len(OwnReferences) :
                   OwnReferences[k].chapter = UnknownChapter

\* a text without banner and without "Bibliography" has given a Reference
C14_Witness ==
    /\ FirstChunkDone
    /\ Len(chapters) = 1
    /\ ~Contains(chapters[1], BibliographyWord)
    /\ OwnReferences # << >>
    /\ OwnReferences[1].chapter = UnknownChapter

\* the marker of a key as the document writes it, brackets included
Marker(key) == << "[" >> \o key \o << "]" >>

\* C19: the citation_key of every emitted Reference is the marker as the
\* document writes it, square brackets included, and its raw_text is the
\* entry text without the marker
C19_KeyKeepsBrackets ==
    \A k \in 1..Len(references) :
        \E e \in EntriesFrom(ContentChunks(pdf_file.text), 1) :
            /\ references[k].citation_key = Marker(e[1])
            /\ references[k].raw_text = e[2]

\* the key and the entry text of the key lines with entry text of ls, in
\* the order of the lines
RECURSIVE EntrySeqOf(_, _)
EntrySeqOf(ls, ks) ==
    IF ks = {} THEN << >>
    ELSE LET k == CHOOSE x \in ks : \A y \in ks : x <= y
         IN  (IF HasText(ls, k)
              THEN << << KeyOfLine(ls[k]), EntryTextOf(ls, k) >> >>
              ELSE << >>)
             \o EntrySeqOf(ls, ks \ { k })

RECURSIVE EntrySeqFrom(_, _)
EntrySeqFrom(chunks, c) ==
    IF c > Len(chunks) THEN << >>
    ELSE EntrySeqOf(ChunkLines(chunks[c]), KeyLinesOf(ChunkLines(chunks[c])))
         \o EntrySeqFrom(chunks, c + 1)

\* the entries of a document that is not all preamble, in document order
DocEntries(doc) ==
    EntrySeqFrom(ContentChunks(doc), IF HasPreamble(doc) THEN 2 ELSE 1)

\* C20: the raw_text of every emitted Reference is the single-space join of
\* the trimmed text after the bracket of its key line, if any, and the
\* trimmed non-blank lines that follow up to the next key line or the end
\* of the chunk; blank lines and the lines before the first key line of a
\* chunk are in no raw_text
C20_RawTextIsJoin ==
    /\ \A k \in 1..Len(references) :
          << references[k].citation_key, references[k].raw_text >>
              \in EntriesFrom(ContentChunks(pdf_file.text), 1)
    /\ (Returned /\ calls = 1) =>
          [k \in 1..Len(results[1]) |->
              << results[1][k].citation_key, results[1][k].raw_text >>]
          = DocEntries(pdf_file.text)

\* a key line with text after the bracket, a blank line and a line of text
\* have given one Reference with the two texts joined
C20_Witness ==
    /\ Returned
    /\ calls = 1
    /\ Contains(pdf_file.text, << "x", "\n", "\n", "y" >>)
    /\ Len(results[1]) = 1
    /\ results[1][1].raw_text = << "x", " ", "y" >>

\* the chapter of each content chunk of a document: "Unknown" before the
\* first banner, then "Chapter N" with the digits N of the banner before
\* the chunk
ChapterLabels(doc) ==
    LET parts == ReSplit(ChapterRe, doc)
    IN  [c \in 1..((Len(parts) + 1) \div 2) |->
            IF c = 1 THEN UnknownChapter
            ELSE ChapterWord \o << " " >> \o parts[2 * c - 2]]

\* key, entry text and chapter of the entries of the chunks from c on, each
\* chunk on its own
RECURSIVE LabelledFrom(_, _, _)
LabelledFrom(chunks, labels, c) ==
    IF c > Len(chunks) THEN << >>
    ELSE LET es == EntrySeqOf(ChunkLines(chunks[c]),
                              KeyLinesOf(ChunkLines(chunks[c])))
         IN  [k \in 1..Len(es) |-> << es[k][1], es[k][2], labels[c] >>]
             \o LabelledFrom(chunks, labels, c + 1)

LabelledEntries(doc) ==
    LabelledFrom(ContentChunks(doc), ChapterLabels(doc),
                 IF HasPreamble(doc) THEN 2 ELSE 1)

\* C21: the chunks between banners are segmented one by one: the entry
\* still open at the end of a chunk is emitted there with the lines of that
\* chunk only, and every Reference has the chapter "Chapter N" of the last
\* banner before its key line, "Unknown" when there is none; no entry is
\* open when the first line of a chunk is read
C21_ChunksIndependent ==
    /\ (Returned /\ calls = 1) =>
          [k \in 1..Len(results[1]) |->
              << results[1][k].citation_key, results[1][k].raw_text,
                 results[1][k].chapter >>]
          = LabelledEntries(pdf_file.text)
    /\ (pc = "lines" /\ ln = 1) => current_key = << >>

\* an entry, the banner of chapter 2 and the same entry again have given
\* two References, the first with chapter "Unknown", the second with
\* "Chapter 2"
C21_Witness ==
    /\ Returned
    /\ calls = 1
    /\ pdf_file.text = DocOf(<< 1, 9, 1 >>)
    /\ Len(results[1]) = 2
    /\ results[1][1].raw_text = << "x" >>
    /\ results[1][1].chapter = UnknownChapter
    /\ results[1][2].chapter = ChapterWord \o << " ", "2" >>

(***************************************************************************)
(* The two segmenters compared, under Spec.                                *)
(***************************************************************************)

\* the citation key a span of split_into_references starts with: the text
\* of its marker without the brackets
SpanKey(span) ==
    LET m == ReMatch(ReferenceMarkerRe, span)
    IN  SubSeq(span, 2, m.end - 1)

SpanKeys(spans) == [k \in 1..Len(spans) |-> SpanKey(spans[k])]

\* C27: for every text, parse_references and split_into_references give
\* the same number of entries with the same citation keys in the same order
C27_SegmentersAgree ==
    (Returned /\ calls = 1) =>
        CitationKeys(results[1]) = SpanKeys(split_into_references(raw_text))

(***************************************************************************)
(* The property of the lookup loop, under MainSpec.                        *)
(***************************************************************************)

\* the first and the last author of references[k] (k from 0)
FirstAuthorOf(k) == main_refs[k + 1].first_author

LastAuthorOf(k) == main_refs[k + 1].last_author

\* the indices of the references the loop has done
Looked == 0..(main_i - 1)

\* C29: in one run of process_references lookup_author is called at most
\* once for a name, every reference with a name gets the AuthorInfo cached
\* for it, first_author_info[i] is there exactly for the references with a
\* first author, and with last_author == first_author the two entries of a
\* reference are the same
C29_OneLookupPerName ==
    /\ \A a, b \in 1..Len(lookup_calls) :
          lookup_calls[a] = lookup_calls[b] => a = b
    /\ Range(lookup_calls) = DOMAIN author_cache
    /\ DOMAIN first_author_info = { k \in Looked : FirstAuthorOf(k) # << >> }
    /\ \A k \in DOMAIN first_author_info :
          first_author_info[k] = author_cache[FirstAuthorOf(k)]
    /\ \A k \in Looked :
          IF LastAuthorOf(k) = FirstAuthorOf(k)
          THEN /\ k \in DOMAIN last_author_info
               /\ last_author_info[k] = Get(first_author_info, k)
          ELSE LastAuthorOf(k) # << >> =>
                  /\ k \in DOMAIN last_author_info
                  /\ last_author_info[k] = author_cache[LastAuthorOf(k)]

\* a run is over three references, two authors then each of them alone:
\* two calls of lookup_author, and the second and the third reference got
\* what the first one cached
C29_Witness ==
    /\ main_pc = "done"
    /\ Len(main_refs) = 3
    /\ FirstAuthorOf(0) # LastAuthorOf(0)
    /\ FirstAuthorOf(1) = LastAuthorOf(0)
    /\ FirstAuthorOf(2) = FirstAuthorOf(0)
    /\ LastAuthorOf(2) = FirstAuthorOf(2)
    /\ lookup_calls = << FirstAuthorOf(0), LastAuthorOf(0) >>
    /\ first_author_info[1] = last_author_info[0]
    /\ last_author_info[2] = first_author_info[0]
    /\ first_author_info[0].affiliation # first_author_info[1].affiliation

(***************************************************************************)
(* Properties of the web interface, under WebSpec and WebFairSpec.         *)
(***************************************************************************)

\* C28: however the process_job thread and the /status requests interleave,
\* a status response with status 'complete' has an output_file that is not
\* None and progress 100, and the page never builds a download link from a
\* missing file name
C28_CompleteHasFile ==
    \A job_id \in JobIds :
        /\ (response[job_id] # None /\ response[job_id].status = "complete")
              => /\ response[job_id].output_file # None
                 /\ response[job_id].progress = 100
        /\ download_link[job_id] # Href(None)

\* a job is settled: its status is 'complete' or 'error'
Settled(job_id) ==
    job_id \in DOMAIN jobs /\ jobs[job_id].status \in { "complete", "error" }

\* the fields of every job agree: error is set exactly when the status is
\* 'error', and output_file only when it is 'complete'
FieldsAgree ==
    \A job_id \in DOMAIN jobs :
        /\ jobs[job_id].error # None <=> jobs[job_id].status = "error"
        /\ jobs[job_id].output_file # None => jobs[job_id].status = "complete"

\* a new job has status 'processing', and a settled job keeps its status
StatusSteps ==
    /\ \A job_id \in DOMAIN jobs' \ DOMAIN jobs :
          jobs'[job_id].status = "processing"
    /\ \A job_id \in JobIds :
          Settled(job_id) => jobs'[job_id].status = jobs[job_id].status

\* C30: every job /upload makes starts with status 'processing', when
\* process_references returns or raises it reaches 'complete' or 'error' and
\* keeps that status, and at every moment its error is set exactly when the
\* status is 'error' and its output_file only when the status is 'complete'
C30_JobSettles ==
    /\ []FieldsAgree
    /\ [][StatusSteps]_vars
    /\ \A job_id \in JobIds : (job_id \in DOMAIN jobs) ~> Settled(job_id)

\* the parts of C30 about the status alone
JobSettlesStatus ==
    /\ [][StatusSteps]_vars
    /\ \A job_id \in JobIds : (job_id \in DOMAIN jobs) ~> Settled(job_id)

\* the fields of every job whose thread has finished agree, and no job has
\* an error while processing or an output_file unless complete
FieldsAgreeAtRest ==
    \A job_id \in DOMAIN jobs :
        /\ jobs[job_id].error # None => jobs[job_id].status = "error"
        /\ jobs[job_id].output_file # None => jobs[job_id].status = "complete"
        /\ job_pc[job_id].at = "finished"
              => (jobs[job_id].error # None <=> jobs[job_id].status = "error")

=========================================================================
